---- MODULE Spec2Model ----
(***************************************************************************)
(* Meliora: chunked audio capture, transcription, hallucination filtering  *)
(* and session storage.                                                    *)
(*                                                                         *)
(* Spec        the browser recorder hook (useRealTimeTranscription) with   *)
(*             the /api/transcribe and /api/sessions/[id]/transcriptions   *)
(*             handlers it calls, for one session of one principal.        *)
(*                                                                         *)
(* Text is a sequence of one-character strings, so that substring search,  *)
(* lower-casing, trimming and length are computed, not assumed.            *)
(***************************************************************************)
EXTENDS Integers, Sequences, FiniteSets, TLC

VARIABLES
    \* ---- recorder hook state ----
    mrState,        \* MediaRecorder.state: "none" before construction
    isRecording,    \* useState isRecording
    isProcessing,   \* useState isProcessing
    error,          \* useState error: "null" or a message class
    intervalRef,    \* TRUE while the chunk interval is installed
    streamRef,      \* "null", "processed", or "processedWithContext" once the
                    \* audioContext and processor are attached to it
    micLive,        \* the getUserMedia stream's tracks are live
    ctxOpen,        \* the AudioContext made by startRecording is open
    events,         \* MediaRecorder events queued by stop(), in order
    chunksRef,      \* number of data blobs buffered in chunksRef.current
    started,        \* startRecording has been called
    \* ---- wall clock, in seconds ----
    now,
    nextTick,       \* the time the interval fires next
    \* ---- one pipeline per emitted chunk (transcribeAudio invocations) ----
    chunks,
    \* ---- server side ----
    blobs,          \* keys present in the audio-recordings bucket
    transcriptions, \* rows of the transcriptions table, in insertion order
    \* ---- relational store and the REST handlers' last answer ----
    sessions,       \* sessions table: id -> row
    clients,        \* clients table: id -> row
    summaries,      \* session ids that have a session_summaries row
    suggestions,    \* session ids that have ai_suggestions rows
    resp,           \* the answer of the last REST request
    \* ---- post-processing (stitching) of a session ----
    artifacts,      \* stitched artifacts in the blob store: session id -> bytes
    post,           \* sessions' post-processing columns: session id -> record
    stitchResp,     \* the answer of the last stitch request
    \* ---- the transcription filter applied to one Whisper text ----
    filterRun,      \* [text, answer]: answer is <<>> until the filter has run
    \* ---- the signal gate applied to one chunk ----
    gateRun,        \* [failure, channelData, hasAudio, pc]: hasAudio is <<>> until
                    \* checkAudioVolume has resolved
    \* ---- the parse of one text-generation response ----
    parseRun,       \* [response, summary, suggestions]: the answers are <<>>
                    \* until the two services have parsed the response
    \* ---- summary POST requests in flight, each at its own step ----
    sumReqs,
    \* ---- SessionView.endSession and the requests it sends ----
    endRun,
    \* ---- the stitch requests of the sessions list and the session view ----
    audioReq

recVars == <<mrState, isRecording, isProcessing, error, intervalRef, streamRef,
             micLive, ctxOpen, events, chunksRef, started, now, nextTick, chunks>>

apiVars == <<sessions, clients, summaries, suggestions, resp>>

stitchVars == <<artifacts, post, stitchResp>>

reqVars == <<parseRun, sumReqs, endRun, audioReq>>

NULL == "null"
\* audioUrl = null
NoUrl == <<>>
\* client_id = null
NoClient == 0

(***************************************************************************)
(* Text                                                                    *)
(***************************************************************************)
Range(s) == {s[i] : i \in 1..Len(s)}

UpperToLower ==
    [c \in {"T", "B", "G", "H"} |->
        CASE c = "T" -> "t" [] c = "B" -> "b" [] c = "G" -> "g" [] c = "H" -> "h"]

\* String.prototype.toLowerCase
toLowerCase(t) ==
    [i \in 1..Len(t) |-> IF t[i] \in DOMAIN UpperToLower THEN UpperToLower[t[i]] ELSE t[i]]

RECURSIVE trimStart(_)
trimStart(t) == IF t # <<>> /\ Head(t) = " " THEN trimStart(Tail(t)) ELSE t

RECURSIVE trimEnd(_)
trimEnd(t) ==
    IF t # <<>> /\ t[Len(t)] = " " THEN trimEnd(SubSeq(t, 1, Len(t) - 1)) ELSE t

\* String.prototype.trim
trim(t) == trimEnd(trimStart(t))

\* the positions at which phrase p occurs in t
Occurrences(t, p) ==
    {i \in 1..(Len(t) - Len(p) + 1) : SubSeq(t, i, i + Len(p) - 1) = p}

\* String.prototype.includes
includes(t, p) == Occurrences(t, p) # {}

\* (t.match(/p/g) || []).length: leftmost non-overlapping matches
RECURSIVE matchCount(_, _)
matchCount(t, p) ==
    IF Occurrences(t, p) = {} THEN 0
    ELSE LET i == CHOOSE j \in Occurrences(t, p) : \A k \in Occurrences(t, p) : j <= k
         IN  1 + matchCount(SubSeq(t, i + Len(p), Len(t)), p)

(***************************************************************************)
(* Hallucination filter of POST /api/transcribe                            *)
(***************************************************************************)
\* the phrase list, in source order
hallucinations == <<
    <<"t", "h", "a", "n", "k", " ", "y", "o", "u">>,
    <<"t", "h", "a", "n", "k", "s", " ", "f", "o", "r", " ", "w", "a", "t", "c", "h", "i", "n", "g">>,
    <<"b", "y", "e">>,
    <<"b", "y", "e", "-", "b", "y", "e">>,
    <<"t", "r", "a", "n", "s", "c", "r", "i", "b", "e", "d", " ", "b", "y">>,
    <<"o", "t", "t", "e", "r", ".", "a", "i">>,
    <<"t", "h", "a", "n", "k", "s">>,
    <<"t", "h", "a", "n", "k", " ", "y", "o", "u", " ", "v", "e", "r", "y", " ", "m", "u", "c", "h">>,
    <<"g", "o", "o", "d", "b", "y", "e">>,
    <<"s", "e", "e", " ", "y", "o", "u", " ", "l", "a", "t", "e", "r">>,
    <<"h", "a", "v", "e", " ", "a", " ", "g", "r", "e", "a", "t", " ", "d", "a", "y">>,
    <<"t", "a", "k", "e", " ", "c", "a", "r", "e">>,
    <<"b", "e", "a", "d", "a", "h", "o", "l", "i", "q", "u", "e", ".", "c", "o", "m">>,
    <<"b", "e", "a", "d", "i", "n", "g", " ", "s", "u", "p", "p", "l", "i", "e", "s">>,
    <<"g", "o", " ", "t", "o", " ", "b", "e", "a", "d", "a", "h", "o", "l", "i", "q", "u", "e">>,
    <<"f", "o", "r", " ", "a", "l", "l", " ", "o", "f", " ", "y", "o", "u", "r">>,
    <<"s", "u", "p", "p", "l", "i", "e", "s", " ", "n", "e", "e", "d", "s">>
>>

S_thank_you == <<"t", "h", "a", "n", "k", " ", "y", "o", "u">>
S_otter_ai == <<"o", "t", "t", "e", "r", ".", "a", "i">>
S_transcribed_by == <<"t", "r", "a", "n", "s", "c", "r", "i", "b", "e", "d", " ", "b", "y">>
S_dot_com == <<".", "c", "o", "m">>
S_for_all == <<"f", "o", "r", " ", "a", "l", "l">>
S_beadaholique == <<"b", "e", "a", "d", "a", "h", "o", "l", "i", "q", "u", "e">>
S_go_to == <<"g", "o", " ", "t", "o">>
S_supplies_needs == <<"s", "u", "p", "p", "l", "i", "e", "s", " ", "n", "e", "e", "d", "s">>

\* transcription.text.length < 100
HallucinationMaxLen == 100
\* the "thank you" repetition threshold
ThankYouRepeats == 3
\* confidence is kept in hundredths: 0.95 -> 95, 0.9 -> 90
DefaultConfidence == 95
ClientDefaultConfidence == 90

transcriptionLower(text) == trim(toLowerCase(text))

\* variant: rule 1 without the length test
ShortWithPhrase_anyLength(text) ==
    \E i \in 1..Len(hallucinations) :
        includes(transcriptionLower(text), toLowerCase(hallucinations[i]))

\* rule 1: a short text containing any phrase of the list
ShortWithPhrase(text) ==
    /\ Len(text) < HallucinationMaxLen
    /\ \E i \in 1..Len(hallucinations) :
          includes(transcriptionLower(text), toLowerCase(hallucinations[i]))

\* rule 2: repetitive "thank you"
RepeatedThankYou(text) ==
    matchCount(transcriptionLower(text), S_thank_you) >= ThankYouRepeats

\* rule 3: provenance markers
ProvenanceMarker(text) ==
    \/ includes(transcriptionLower(text), S_otter_ai)
    \/ includes(transcriptionLower(text), S_transcribed_by)

\* variant: any domain-like substring counts as advertising
AdvertisingPattern_anyDomain(text) == includes(transcriptionLower(text), S_dot_com)

\* rule 4: advertising / promotional patterns
AdvertisingPattern(text) ==
    \/ includes(transcriptionLower(text), S_dot_com) /\ includes(transcriptionLower(text), S_for_all)
    \/ includes(transcriptionLower(text), S_beadaholique)
    \/ includes(transcriptionLower(text), S_go_to) /\ includes(transcriptionLower(text), S_dot_com)
    \/ includes(transcriptionLower(text), S_supplies_needs)

isLikelyHallucination(text) ==
    \/ ShortWithPhrase(text)
    \/ RepeatedThankYou(text)
    \/ ProvenanceMarker(text)
    \/ AdvertisingPattern(text)

\* the text and confidence of the JSON answer of POST /api/transcribe
FilterResult(text) ==
    IF isLikelyHallucination(text)
    THEN [text |-> <<>>, confidence |-> 0]
    ELSE [text |-> text, confidence |-> DefaultConfidence]

(***************************************************************************)
(* Recorder hook: useRealTimeTranscription                                 *)
(***************************************************************************)
\* chunkDuration = 3000 ms, in seconds
ChunkSeconds == 3
\* the clock stops advancing here
MaxTime == 4

SessionId == 1

T_hi == <<"H", "i">>
T_bye == <<"B", "y", "e">>
\* what the speech-to-text call may answer for a chunk
WhisperTexts == {T_hi, T_bye, <<" ">>}

\* outcomes of the chunk analysis inside checkAudioVolume
GateOutcomes == {"significant", "silent", "readError", "decodeError", "noAudioContext"}

\* checkAudioVolume: resolves hasSignificantAudio, and true whenever the
\* analysis itself fails
checkAudioVolume(outcome) ==
    CASE outcome = "significant" -> TRUE
      [] outcome = "silent" -> FALSE
      [] OTHER -> TRUE

\* Amplitudes are in thousandths: 0.01 -> 10, 0.005 -> 5, 0.001 -> 1.
\* channelData is run-length coded: a sequence of [value, count] runs.
PeakThreshold == 10
LowThreshold == 5
MeanThreshold == 1
PercentThreshold == 1

\* Math.abs
abs(x) == IF x < 0 THEN -x ELSE x

\* channelData.length
RECURSIVE sampleCount(_)
sampleCount(channelData) ==
    IF channelData = <<>> THEN 0
    ELSE Head(channelData).count + sampleCount(Tail(channelData))

\* sum += amplitude
RECURSIVE sumAmplitude(_)
sumAmplitude(channelData) ==
    IF channelData = <<>> THEN 0
    ELSE abs(Head(channelData).value) * Head(channelData).count
             + sumAmplitude(Tail(channelData))

\* maxAmplitude = Math.max(maxAmplitude, amplitude), from 0
RECURSIVE maxAmplitude(_)
maxAmplitude(channelData) ==
    IF channelData = <<>> THEN 0
    ELSE LET rest == maxAmplitude(Tail(channelData))
             a == abs(Head(channelData).value)
         IN  IF a > rest THEN a ELSE rest

\* if (amplitude > threshold) samplesAboveThreshold++
RECURSIVE samplesAboveThreshold(_)
samplesAboveThreshold(channelData) ==
    IF channelData = <<>> THEN 0
    ELSE (IF abs(Head(channelData).value) > LowThreshold THEN Head(channelData).count ELSE 0)
             + samplesAboveThreshold(Tail(channelData))

\* variant: the three tests combined with "and"
hasSignificantAudio_allTests(channelData) ==
    /\ maxAmplitude(channelData) > PeakThreshold
    /\ sumAmplitude(channelData) > MeanThreshold * sampleCount(channelData)
    /\ samplesAboveThreshold(channelData) * 100 > PercentThreshold * sampleCount(channelData)

\* hasSignificantAudio; the two quotients are compared after multiplying by
\* channelData.length, and for an empty buffer both are NaN, which compares
\* false
hasSignificantAudio(channelData) ==
    \/ maxAmplitude(channelData) > PeakThreshold
    \/ /\ sampleCount(channelData) > 0
       /\ sumAmplitude(channelData) > MeanThreshold * sampleCount(channelData)
    \/ /\ sampleCount(channelData) > 0
       /\ samplesAboveThreshold(channelData) * 100 > PercentThreshold * sampleCount(channelData)

\* variant: a failed analysis resolves false
checkAudioVolumeOf_failClosed(failure, channelData) ==
    failure = "none" /\ hasSignificantAudio(channelData)

\* what checkAudioVolume resolves for a chunk whose analysis fails with
\* failure, or else decodes to channelData
checkAudioVolumeOf(failure, channelData) ==
    IF failure = "none"
    THEN checkAudioVolume(IF hasSignificantAudio(channelData) THEN "significant" ELSE "silent")
    ELSE checkAudioVolume(failure)

\* one invocation of transcribeAudio and the requests it makes
NewChunk ==
    [pc |-> "gate", audioUrl |-> NoUrl, uploaded |-> FALSE, ok |-> FALSE,
     flagged |-> FALSE, text |-> <<>>, confidence |-> 0, timestamp |-> 0, chunkIndex |-> 0]

\* Math.floor(Date.now() / 1000)
ChunkIndexAt(t) == t

\* the key of a chunk's audio: `${sessionId}/audio-${Date.now()}.webm`; the
\* millisecond suffix is rendered by the ordinal of the request
audioFileName(c) == <<SessionId, c>>

Advance ==
    /\ now < MaxTime
    /\ now' = now + 1
    /\ UNCHANGED <<mrState, isRecording, isProcessing, error, intervalRef, streamRef,
                   micLive, ctxOpen, events, chunksRef, started, nextTick, chunks,
                   blobs, transcriptions>>

\* startRecording; failAt is the first call that throws, "none" if none does
startRecording(failAt) ==
    /\ ~started
    /\ started' = TRUE
    /\ IF failAt \in {"enumerateDevices", "getUserMedia"}
       THEN /\ error' = "startFailed"
            /\ UNCHANGED <<mrState, isRecording, intervalRef, streamRef, micLive,
                           ctxOpen, chunksRef, nextTick>>
       ELSE IF failAt = "AudioContext"
       THEN /\ error' = "startFailed"
            /\ micLive' = TRUE
            /\ UNCHANGED <<mrState, isRecording, intervalRef, streamRef, ctxOpen,
                           chunksRef, nextTick>>
       ELSE IF failAt = "MediaRecorder"
       THEN /\ error' = "startFailed"
            /\ micLive' = TRUE
            /\ ctxOpen' = TRUE
            /\ streamRef' = "processed"
            /\ UNCHANGED <<mrState, isRecording, intervalRef, chunksRef, nextTick>>
       ELSE /\ error' = NULL
            /\ micLive' = TRUE
            /\ ctxOpen' = TRUE
            /\ streamRef' = "processedWithContext"
            /\ mrState' = "recording"
            /\ chunksRef' = 0
            /\ isRecording' = TRUE
            /\ intervalRef' = TRUE
            /\ nextTick' = now + ChunkSeconds
    /\ UNCHANGED <<isProcessing, events, now, chunks, blobs, transcriptions>>

\* variant: the callback does nothing while a chunk is still in its pipeline
IntervalTick_waitsForPipeline ==
    /\ intervalRef
    /\ now >= nextTick
    /\ \A c \in 1..Len(chunks) : chunks[c].pc \in {"skipped", "failed", "done"}
    /\ nextTick' = nextTick + ChunkSeconds
    /\ IF mrState = "recording"
       THEN events' = events \o <<"dataavailable", "stop">>
       ELSE UNCHANGED events
    /\ UNCHANGED <<mrState, isRecording, isProcessing, error, intervalRef, streamRef,
                   micLive, ctxOpen, chunksRef, started, now, chunks, blobs,
                   transcriptions>>

\* the setInterval callback: stop() queues dataavailable and stop, start()
\* resumes capture at once
IntervalTick ==
    /\ intervalRef
    /\ now >= nextTick
    /\ nextTick' = nextTick + ChunkSeconds
    /\ IF mrState = "recording"
       THEN events' = events \o <<"dataavailable", "stop">>
       ELSE UNCHANGED events
    /\ UNCHANGED <<mrState, isRecording, isProcessing, error, intervalRef, streamRef,
                   micLive, ctxOpen, chunksRef, started, now, chunks, blobs,
                   transcriptions>>

\* mediaRecorder.ondataavailable
ondataavailable(size) ==
    /\ events # <<>>
    /\ Head(events) = "dataavailable"
    /\ events' = Tail(events)
    /\ chunksRef' = IF size > 0 THEN chunksRef + 1 ELSE chunksRef
    /\ UNCHANGED <<mrState, isRecording, isProcessing, error, intervalRef, streamRef,
                   micLive, ctxOpen, started, now, nextTick, chunks, blobs,
                   transcriptions>>

\* mediaRecorder.onstop: hands the buffered audio to transcribeAudio, which
\* runs up to its first await
onstop ==
    /\ events # <<>>
    /\ Head(events) = "stop"
    /\ events' = Tail(events)
    /\ chunksRef' = 0
    /\ chunks' = IF chunksRef > 0 THEN Append(chunks, NewChunk) ELSE chunks
    /\ UNCHANGED <<mrState, isRecording, isProcessing, error, intervalRef, streamRef,
                   micLive, ctxOpen, started, now, nextTick, blobs, transcriptions>>

\* variant: the interval is left installed
stopRecording_keepsInterval ==
    /\ started
    /\ IF mrState = "recording"
       THEN /\ mrState' = "inactive"
            /\ events' = events \o <<"dataavailable", "stop">>
       ELSE UNCHANGED <<mrState, events>>
    /\ IF streamRef # NULL
       THEN /\ ctxOpen' = IF streamRef = "processedWithContext" THEN FALSE ELSE ctxOpen
            /\ streamRef' = NULL
       ELSE UNCHANGED <<ctxOpen, streamRef>>
    /\ isRecording' = FALSE
    /\ UNCHANGED <<isProcessing, error, intervalRef, micLive, chunksRef, started, now,
                   nextTick, chunks, blobs, transcriptions>>

\* stopRecording
stopRecording ==
    /\ started
    /\ intervalRef' = FALSE
    /\ IF mrState = "recording"
       THEN /\ mrState' = "inactive"
            /\ events' = events \o <<"dataavailable", "stop">>
       ELSE UNCHANGED <<mrState, events>>
    /\ IF streamRef # NULL
       THEN /\ ctxOpen' = IF streamRef = "processedWithContext" THEN FALSE ELSE ctxOpen
            /\ streamRef' = NULL
       ELSE UNCHANGED <<ctxOpen, streamRef>>
    /\ isRecording' = FALSE
    /\ UNCHANGED <<isProcessing, error, micLive, chunksRef, started, now, nextTick,
                   chunks, blobs, transcriptions>>

(***************************************************************************)
(* transcribeAudio, chunk by chunk, with the two handlers it calls         *)
(***************************************************************************)
Chunks == 1..Len(chunks)

SetChunk(c, r) == [chunks EXCEPT ![c] = r]

\* variant: a chunk without significant audio is sent all the same
Gate_sendsRejected(c, outcome) ==
    /\ chunks[c].pc = "gate"
    /\ chunks' = SetChunk(c, [chunks[c] EXCEPT !.pc = "request"])
    /\ isProcessing' = TRUE
    /\ UNCHANGED <<mrState, isRecording, error, intervalRef, streamRef, micLive,
                   ctxOpen, events, chunksRef, started, now, nextTick, blobs,
                   transcriptions>>

\* transcribeAudio up to the fetch of /api/transcribe
Gate(c, outcome) ==
    /\ chunks[c].pc = "gate"
    /\ IF checkAudioVolume(outcome)
       THEN /\ chunks' = SetChunk(c, [chunks[c] EXCEPT !.pc = "request"])
            /\ isProcessing' = TRUE
       ELSE /\ chunks' = SetChunk(c, [chunks[c] EXCEPT !.pc = "skipped"])
            /\ UNCHANGED isProcessing
    /\ UNCHANGED <<mrState, isRecording, error, intervalRef, streamRef, micLive,
                   ctxOpen, events, chunksRef, started, now, nextTick, blobs,
                   transcriptions>>

\* POST /api/transcribe up to the speech-to-text call: the audio is uploaded
\* first, and an upload error only leaves audioUrl null
TranscribeUpload(c, outcome) ==
    /\ chunks[c].pc = "request"
    /\ CASE outcome = "stored" ->
              /\ blobs' = blobs \cup {audioFileName(c)}
              /\ chunks' = SetChunk(c, [chunks[c] EXCEPT !.pc = "uploaded",
                                            !.audioUrl = audioFileName(c),
                                            !.uploaded = TRUE])
         [] outcome = "uploadError" ->
              /\ chunks' = SetChunk(c, [chunks[c] EXCEPT !.pc = "uploaded"])
              /\ UNCHANGED blobs
         [] OTHER ->  \* no principal: 401
              /\ chunks' = SetChunk(c, [chunks[c] EXCEPT !.pc = "responded", !.ok = FALSE])
              /\ UNCHANGED blobs
    /\ UNCHANGED <<mrState, isRecording, isProcessing, error, intervalRef, streamRef,
                   micLive, ctxOpen, events, chunksRef, started, now, nextTick,
                   transcriptions>>

\* POST /api/transcribe from the speech-to-text call to the answer
TranscribeWhisper(c, threw, text) ==
    /\ chunks[c].pc = "uploaded"
    /\ IF threw
       THEN chunks' = SetChunk(c, [chunks[c] EXCEPT !.pc = "responded", !.ok = FALSE])
       ELSE chunks' = SetChunk(c, [chunks[c] EXCEPT !.pc = "responded", !.ok = TRUE,
                                       !.flagged = isLikelyHallucination(text),
                                       !.text = FilterResult(text).text,
                                       !.confidence = FilterResult(text).confidence,
                                       !.timestamp = now])
    /\ UNCHANGED <<mrState, isRecording, isProcessing, error, intervalRef, streamRef,
                   micLive, ctxOpen, events, chunksRef, started, now, nextTick, blobs,
                   transcriptions>>

\* result.confidence || 0.9
ClientConfidence(conf) == IF conf = 0 THEN ClientDefaultConfidence ELSE conf

\* transcribeAudio from the answer of /api/transcribe to the save request
TranscribeResponse(c) ==
    /\ chunks[c].pc = "responded"
    /\ IF ~chunks[c].ok
       THEN /\ chunks' = SetChunk(c, [chunks[c] EXCEPT !.pc = "failed"])
            /\ error' = "transcribeFailed"
            /\ isProcessing' = FALSE
       ELSE IF trim(chunks[c].text) # <<>>
       THEN /\ chunks' = SetChunk(c, [chunks[c] EXCEPT !.pc = "saveRequest",
                               !.confidence = ClientConfidence(chunks[c].confidence),
                               !.chunkIndex = ChunkIndexAt(now)])
            /\ UNCHANGED <<error, isProcessing>>
       ELSE /\ chunks' = SetChunk(c, [chunks[c] EXCEPT !.pc = "done"])
            /\ isProcessing' = FALSE
            /\ UNCHANGED error
    /\ UNCHANGED <<mrState, isRecording, intervalRef, streamRef, micLive, ctxOpen,
                   events, chunksRef, started, now, nextTick, blobs, transcriptions>>

\* variant: a rejected fetch also removes the interval
TranscribeFetchFails_stopsLoop(c) ==
    /\ chunks[c].pc \in {"request", "uploaded", "responded"}
    /\ chunks' = SetChunk(c, [chunks[c] EXCEPT !.pc = "failed"])
    /\ error' = "transcribeFailed"
    /\ isProcessing' = FALSE
    /\ intervalRef' = FALSE
    /\ UNCHANGED <<mrState, isRecording, streamRef, micLive, ctxOpen,
                   events, chunksRef, started, now, nextTick, blobs, transcriptions>>

\* the fetch of /api/transcribe rejects (network error)
TranscribeFetchFails(c) ==
    /\ chunks[c].pc \in {"request", "uploaded", "responded"}
    /\ chunks' = SetChunk(c, [chunks[c] EXCEPT !.pc = "failed"])
    /\ error' = "transcribeFailed"
    /\ isProcessing' = FALSE
    /\ UNCHANGED <<mrState, isRecording, intervalRef, streamRef, micLive, ctxOpen,
                   events, chunksRef, started, now, nextTick, blobs, transcriptions>>

\* confidence || 0.95
ServerConfidence(conf) == IF conf = 0 THEN DefaultConfidence ELSE conf

\* the row POST /api/sessions/[id]/transcriptions inserts
TranscriptionRow(sid, text, conf, ts, idx, url, c) ==
    [session_id |-> sid, text |-> text, confidence |-> ServerConfidence(conf),
     timestamp |-> ts, chunk_index |-> idx, audio_url |-> url, chunk |-> c]

\* POST /api/sessions/[id]/transcriptions for the recorder's own session
SaveTranscription(c, dbOk) ==
    /\ chunks[c].pc = "saveRequest"
    /\ chunks' = SetChunk(c, [chunks[c] EXCEPT !.pc = "saveResponded"])
    /\ transcriptions' =
          IF dbOk
          THEN Append(transcriptions,
                      TranscriptionRow(SessionId, chunks[c].text, chunks[c].confidence,
                                       chunks[c].timestamp, chunks[c].chunkIndex,
                                       chunks[c].audioUrl, c))
          ELSE transcriptions
    /\ UNCHANGED <<mrState, isRecording, isProcessing, error, intervalRef, streamRef,
                   micLive, ctxOpen, events, chunksRef, started, now, nextTick, blobs>>

\* transcribeAudio after the save fetch settles (resolved or rejected, both
\* only logged): onTranscription, then the finally block
SaveSettled(c) ==
    /\ chunks[c].pc \in {"saveRequest", "saveResponded"}
    /\ chunks' = SetChunk(c, [chunks[c] EXCEPT !.pc = "done"])
    /\ isProcessing' = FALSE
    /\ UNCHANGED <<mrState, isRecording, error, intervalRef, streamRef, micLive,
                   ctxOpen, events, chunksRef, started, now, nextTick, blobs,
                   transcriptions>>

StartFailures == {"none", "enumerateDevices", "getUserMedia", "AudioContext", "MediaRecorder"}

RecInit ==
    /\ mrState = "none"
    /\ isRecording = FALSE
    /\ isProcessing = FALSE
    /\ error = NULL
    /\ intervalRef = FALSE
    /\ streamRef = NULL
    /\ micLive = FALSE
    /\ ctxOpen = FALSE
    /\ events = <<>>
    /\ chunksRef = 0
    /\ started = FALSE
    /\ now = 0
    /\ nextTick = 0
    /\ chunks = <<>>

vars == <<mrState, isRecording, isProcessing, error, intervalRef, streamRef, micLive,
          ctxOpen, events, chunksRef, started, now, nextTick, chunks, blobs,
          transcriptions, sessions, clients, summaries, suggestions, resp,
          artifacts, post, stitchResp, filterRun, gateRun,
          parseRun, sumReqs, endRun, audioReq>>

NoResp == [caller |-> NULL, owners |-> {}]

\* no stitch request has been made
NoStitch == [status |-> "none", cached |-> FALSE, chunkCount |-> 0, skipped |-> {},
             url |-> NoUrl]

\* no chunk is at the gate
NoGateRun == [failure |-> "none", channelData |-> <<>>, hasAudio |-> <<>>, pc |-> "gate"]

\* no text-generation response has been parsed
NoParse == [response |-> <<>>, summary |-> <<>>, suggestions |-> <<>>]

\* endSession has not been called
NoEnd == [pc |-> "idle", count |-> 0, patchOk |-> FALSE, post |-> "none",
          navigated |-> FALSE, reported |-> FALSE]

\* a view that has not asked for the session audio
NoAudio == [pc |-> "idle", loading |-> FALSE, timer |-> FALSE, elapsed |-> 0,
            alert |-> "none", url |-> FALSE]

Views == {"sessions", "sessionView"}

\* no request is in flight
ReqInit ==
    /\ parseRun = NoParse
    /\ sumReqs = <<>>
    /\ endRun = NoEnd
    /\ audioReq = [v \in Views |-> NoAudio]

\* nothing stitched and no text filtered
SideInit ==
    /\ artifacts = <<>>
    /\ post = <<>>
    /\ stitchResp = NoStitch
    /\ filterRun = [text |-> <<>>, answer |-> <<>>]
    /\ gateRun = NoGateRun
    /\ ReqInit

\* the recorder's session exists and belongs to the signed-in principal
Init ==
    /\ RecInit
    /\ blobs = {}
    /\ transcriptions = <<>>
    /\ sessions = (SessionId :> [clerk_user_id |-> "u1", scenario_type |-> "in_person",
                                 client_id |-> NoClient,
                                 status |-> "active", metadata |-> "{}"])
    /\ clients = <<>>
    /\ summaries = {}
    /\ suggestions = {}
    /\ resp = NoResp
    /\ SideInit

Next ==
    \/ Advance /\ UNCHANGED <<apiVars, stitchVars, filterRun, gateRun, reqVars>>
    \/ \E f \in StartFailures : startRecording(f) /\ UNCHANGED <<apiVars, stitchVars, filterRun, gateRun, reqVars>>
    \/ IntervalTick /\ UNCHANGED <<apiVars, stitchVars, filterRun, gateRun, reqVars>>
    \/ \E size \in 0..1 : ondataavailable(size) /\ UNCHANGED <<apiVars, stitchVars, filterRun, gateRun, reqVars>>
    \/ onstop /\ UNCHANGED <<apiVars, stitchVars, filterRun, gateRun, reqVars>>
    \/ stopRecording /\ UNCHANGED <<apiVars, stitchVars, filterRun, gateRun, reqVars>>
    \/ \E c \in Chunks, o \in GateOutcomes : Gate(c, o) /\ UNCHANGED <<apiVars, stitchVars, filterRun, gateRun, reqVars>>
    \/ \E c \in Chunks, o \in {"stored", "uploadError", "unauthorized"} :
          TranscribeUpload(c, o) /\ UNCHANGED <<apiVars, stitchVars, filterRun, gateRun, reqVars>>
    \/ \E c \in Chunks, threw \in BOOLEAN, t \in WhisperTexts :
          TranscribeWhisper(c, threw, t) /\ UNCHANGED <<apiVars, stitchVars, filterRun, gateRun, reqVars>>
    \/ \E c \in Chunks : TranscribeResponse(c) /\ UNCHANGED <<apiVars, stitchVars, filterRun, gateRun, reqVars>>
    \/ \E c \in Chunks : TranscribeFetchFails(c) /\ UNCHANGED <<apiVars, stitchVars, filterRun, gateRun, reqVars>>
    \/ \E c \in Chunks, dbOk \in BOOLEAN : SaveTranscription(c, dbOk) /\ UNCHANGED <<apiVars, stitchVars, filterRun, gateRun, reqVars>>
    \/ \E c \in Chunks : SaveSettled(c) /\ UNCHANGED <<apiVars, stitchVars, filterRun, gateRun, reqVars>>

Spec == Init /\ [][Next]_vars

(***************************************************************************)
(* Claims about the recorder pipeline (Spec)                               *)
(***************************************************************************)
Rows == 1..Len(transcriptions)

\* C1: of two saved chunks of the session, the one the recorder emitted
\* earlier is stored with the strictly smaller chunk index, whatever the
\* order in which their transcription answers arrive.
C1_IndexFollowsEmission ==
    \A i, j \in Rows :
        transcriptions[i].chunk < transcriptions[j].chunk
            => transcriptions[i].chunk_index < transcriptions[j].chunk_index

\* C2: a chunk that passed the gate, whose audio was stored and whose
\* transcript the filter flagged, has, once its pipeline has finished, a row
\* with empty text, confidence zero and the pointer to its audio.
C2_FlaggedChunkPersisted ==
    \A c \in Chunks :
        (chunks[c].pc = "done" /\ chunks[c].ok /\ chunks[c].flagged /\ chunks[c].uploaded)
            => \E i \in Rows :
                  /\ transcriptions[i].chunk = c
                  /\ transcriptions[i].text = <<>>
                  /\ transcriptions[i].confidence = 0
                  /\ transcriptions[i].audio_url = audioFileName(c)

(***************************************************************************)
(* SpecApi: the REST handlers over the relational store, called by several *)
(* principals.  resp.owners collects the owning principal of every session *)
(* whose row or child rows the request returned or changed.                *)
(***************************************************************************)
Users == {"u1", "u2"}
MaxSessions == 1
MaxClients == 1
MaxRows == 1
\* an id no session was ever created with
MissingId == 0

Owns(u, sid) == sid \in DOMAIN sessions /\ sessions[sid].clerk_user_id = u
OwnsClient(u, cid) == cid \in DOMAIN clients /\ clients[cid].clerk_user_id = u
OwnersOf(sids) == {sessions[sid].clerk_user_id : sid \in sids \cap DOMAIN sessions}
RowsOf(sid) == SelectSeq(transcriptions, LAMBDA r : r.session_id = sid)
Restrict(f, S) == [x \in S |-> f[x]]

\* what a request leaves in resp: who asked, and whose sessions it touched
Touched(u, sids) == [caller |-> u, owners |-> OwnersOf(sids)]

apiFrame == UNCHANGED <<recVars, blobs, stitchVars, filterRun, gateRun, reqVars>>

\* POST /api/clients
CreateClient(u) ==
    /\ Cardinality(DOMAIN clients) < MaxClients
    /\ clients' = Append(clients, [clerk_user_id |-> u])
    /\ resp' = Touched(u, {})
    /\ UNCHANGED <<sessions, transcriptions, summaries, suggestions>>
    /\ apiFrame

ScenarioTypes == {"in_person", "call_center", "conference"}

\* POST /api/sessions
CreateSession(u, scenario_type, client_id) ==
    /\ Cardinality(DOMAIN sessions) < MaxSessions
    /\ IF scenario_type \notin ScenarioTypes
       THEN /\ resp' = Touched(u, {})
            /\ UNCHANGED sessions
       ELSE IF client_id # NoClient /\ ~OwnsClient(u, client_id)
       THEN /\ resp' = Touched(u, {})
            /\ UNCHANGED sessions
       ELSE LET sid == CHOOSE i \in 1..MaxSessions :
                           i \notin DOMAIN sessions /\ \A j \in 1..(i - 1) : j \in DOMAIN sessions
            IN
            /\ sessions' = sessions @@ (sid :> [clerk_user_id |-> u, scenario_type |-> scenario_type,
                                                client_id |-> client_id,
                                                status |-> "active", metadata |-> "{}"])
            /\ resp' = [caller |-> u, owners |-> {u}]
    /\ UNCHANGED <<clients, transcriptions, summaries, suggestions>>
    /\ apiFrame

\* GET /api/sessions
ListSessions(u) ==
    /\ resp' = Touched(u, {sid \in DOMAIN sessions : Owns(u, sid)})
    /\ UNCHANGED <<sessions, clients, transcriptions, summaries, suggestions>>
    /\ apiFrame

\* the answer of GET /api/sessions/[id]: [status, body]
GetSessionAnswer(u, sid) ==
    IF Owns(u, sid)
    THEN [status |-> 200, body |-> <<"session", sessions[sid]>>]
    ELSE [status |-> 404, body |-> <<"error", "Session not found">>]

GetSession(u, sid) ==
    /\ resp' = Touched(u, IF GetSessionAnswer(u, sid).status = 200 THEN {sid} ELSE {})
    /\ UNCHANGED <<sessions, clients, transcriptions, summaries, suggestions>>
    /\ apiFrame

allowedFields == {"status", "metadata", "client_id"}

\* variant: the request body is written to the row as it came
filteredUpdates_unfiltered(updates) == updates

\* PATCH /api/sessions/[id]: updates is the request body, a record given as
\* a function from its keys
filteredUpdates(updates) == Restrict(updates, DOMAIN updates \cap allowedFields)

\* the update matches a row and the store accepts it (client_id is a
\* foreign key into clients)
PatchAccepted(u, sid, updates) ==
    /\ Owns(u, sid)
    /\ "client_id" \in DOMAIN filteredUpdates(updates)
          => \/ filteredUpdates(updates)["client_id"] = NoClient
             \/ filteredUpdates(updates)["client_id"] \in DOMAIN clients

PatchedRow(sid, updates) ==
    [f \in DOMAIN sessions[sid] |->
        IF f \in DOMAIN filteredUpdates(updates)
        THEN filteredUpdates(updates)[f] ELSE sessions[sid][f]]

PatchSessionAnswer(u, sid, updates) ==
    IF DOMAIN filteredUpdates(updates) = {}
    THEN [status |-> 400, body |-> <<"error", "No valid fields to update">>]
    ELSE IF ~PatchAccepted(u, sid, updates)
    THEN [status |-> 500, body |-> <<"error", "Failed to update session">>]
    ELSE [status |-> 200, body |-> <<"session", PatchedRow(sid, updates)>>]

PatchSession(u, sid, updates) ==
    /\ resp' = Touched(u, IF PatchSessionAnswer(u, sid, updates).status = 200 THEN {sid} ELSE {})
    /\ sessions' = IF PatchSessionAnswer(u, sid, updates).status = 200
                   THEN [sessions EXCEPT ![sid] = PatchedRow(sid, updates)]
                   ELSE sessions
    /\ UNCHANGED <<clients, transcriptions, summaries, suggestions>>
    /\ apiFrame

\* the answer of DELETE /api/sessions/[id]
DeleteSessionAnswer(u, sid) == [status |-> 200, body |-> <<"success", TRUE>>]

\* DELETE /api/sessions/[id]; child rows go by ON DELETE CASCADE
DeleteSession(u, sid) ==
    /\ resp' = Touched(u, IF Owns(u, sid) THEN {sid} ELSE {})
    /\ IF Owns(u, sid)
       THEN /\ sessions' = Restrict(sessions, DOMAIN sessions \ {sid})
            /\ transcriptions' = SelectSeq(transcriptions, LAMBDA r : r.session_id # sid)
            /\ summaries' = summaries \ {sid}
            /\ suggestions' = suggestions \ {sid}
       ELSE UNCHANGED <<sessions, transcriptions, summaries, suggestions>>
    /\ UNCHANGED clients
    /\ apiFrame

\* GET /api/clients/[id]/sessions
ClientSessions(u, cid) ==
    /\ IF OwnsClient(u, cid)
       THEN resp' = Touched(u, {sid \in DOMAIN sessions : sessions[sid].client_id = cid})
       ELSE resp' = Touched(u, {})
    /\ UNCHANGED <<sessions, clients, transcriptions, summaries, suggestions>>
    /\ apiFrame

\* the two row orders the handlers ask the store for
Before(order, a, b) ==
    IF order = "timestamp"
    THEN a.timestamp < b.timestamp
    ELSE \/ a.chunk_index < b.chunk_index
         \/ a.chunk_index = b.chunk_index /\ a.timestamp < b.timestamp

RECURSIVE InsertSorted(_, _, _)
InsertSorted(seq, x, order) ==
    IF seq = <<>> THEN <<x>>
    ELSE IF Before(order, x, Head(seq)) THEN <<x>> \o seq
    ELSE <<Head(seq)>> \o InsertSorted(Tail(seq), x, order)

\* ORDER BY: a stable sort of seq
RECURSIVE OrderBy(_, _)
OrderBy(seq, order) ==
    IF seq = <<>> THEN <<>>
    ELSE InsertSorted(OrderBy(SubSeq(seq, 1, Len(seq) - 1), order), seq[Len(seq)], order)

\* the answer of POST /api/sessions/[id]/transcriptions
SaveRowAnswer(u, sid) ==
    IF Owns(u, sid)
    THEN [status |-> 200, body |-> <<"transcription">>]
    ELSE [status |-> 404, body |-> <<"error", "Session not found or unauthorized">>]

\* variant: a save for a session that has rows rewrites them
PostTranscription_rewrites(u, sid, text, ts) ==
    /\ resp' = Touched(u, IF Owns(u, sid) THEN {sid} ELSE {})
    /\ transcriptions' =
          IF Owns(u, sid)
          THEN IF RowsOf(sid) = <<>>
               THEN Append(transcriptions,
                           TranscriptionRow(sid, text, DefaultConfidence, ts, ts, NoUrl, 0))
               ELSE [i \in 1..Len(transcriptions) |->
                        IF transcriptions[i].session_id = sid
                        THEN [transcriptions[i] EXCEPT !.confidence = 0]
                        ELSE transcriptions[i]]
          ELSE transcriptions
    /\ UNCHANGED <<sessions, clients, summaries, suggestions>>
    /\ apiFrame

\* POST /api/sessions/[id]/transcriptions by any principal
PostTranscription(u, sid, text, ts) ==
    /\ Len(transcriptions) < MaxRows
    /\ resp' = Touched(u, IF Owns(u, sid) THEN {sid} ELSE {})
    /\ transcriptions' =
          IF Owns(u, sid)
          THEN Append(transcriptions,
                      TranscriptionRow(sid, text, DefaultConfidence, ts, ts, NoUrl, 0))
          ELSE transcriptions
    /\ UNCHANGED <<sessions, clients, summaries, suggestions>>
    /\ apiFrame

\* the answer of GET /api/sessions/[id]/transcriptions: the rows are read
\* first, and ownership is verified only if there are any
ListRowsAnswer(u, sid) ==
    IF RowsOf(sid) # <<>> /\ ~Owns(u, sid)
    THEN [status |-> 404, body |-> <<"error", "Session not found or unauthorized">>]
    ELSE [status |-> 200, body |-> OrderBy(RowsOf(sid), "timestamp")]

ListTranscriptions(u, sid) ==
    /\ resp' = Touched(u, IF ListRowsAnswer(u, sid).status = 200 /\ RowsOf(sid) # <<>>
                      THEN {sid} ELSE {})
    /\ UNCHANGED <<sessions, clients, transcriptions, summaries, suggestions>>
    /\ apiFrame

\* GET /api/sessions/[id]/summary (AISummaryService.getSessionSummary)
SummaryGet(u, sid) ==
    /\ resp' = IF ~Owns(u, sid) THEN Touched(u, {})
               ELSE IF sid \in summaries THEN Touched(u, {sid})
               ELSE Touched(u, {})
    /\ UNCHANGED <<sessions, clients, transcriptions, summaries, suggestions>>
    /\ apiFrame

\* Array.prototype.join
RECURSIVE join(_, _)
join(texts, sep) ==
    IF texts = <<>> THEN <<>>
    ELSE IF Len(texts) = 1 THEN texts[1]
    ELSE texts[1] \o sep \o join(Tail(texts), sep)

\* transcriptions.map(t => t.text).filter(Boolean).join(' ') || ''
fullTranscript(rows) ==
    join(SelectSeq([i \in 1..Len(rows) |-> rows[i].text], LAMBDA t : t # <<>>), <<" ">>)

\* the order in which the summary route reads the session's rows
TranscriptOrder == "timestamp"

HasTranscriptText(sid) == fullTranscript(OrderBy(RowsOf(sid), TranscriptOrder)) # <<>>

(***************************************************************************)
(* POST /api/sessions/[id]/summary, one action per awaited store or        *)
(* text-generation call, so that requests interleave where the code        *)
(* awaits.  sumReqs[r].answer is "none" until the request has answered.    *)
(***************************************************************************)
MaxRequests == 2

Requests == 1..Len(sumReqs)

SetReq(r, rec) == [sumReqs EXCEPT ![r] = rec]

Answer(r, a) == SetReq(r, [sumReqs[r] EXCEPT !.pc = "done", !.answer = a])

sumFrame == UNCHANGED <<recVars, blobs, stitchVars, filterRun, gateRun, parseRun, endRun,
                        audioReq>>

\* the request arrives; unless forceRegenerate, getSessionSummary is asked
\* for an existing summary, which is returned as it is
SummaryPostCheck(u, sid, forceRegenerate) ==
    LET req == [caller |-> u, sid |-> sid, force |-> forceRegenerate, pc |-> "fetch",
                transcript |-> <<>>, called |-> FALSE, answer |-> "none"]
    IN
    /\ Len(sumReqs) < MaxRequests
    /\ sumReqs' = Append(sumReqs,
          IF forceRegenerate THEN req
          ELSE IF ~Owns(u, sid) THEN [req EXCEPT !.pc = "done", !.answer = "sessionError"]
          ELSE IF sid \in summaries THEN [req EXCEPT !.pc = "done", !.answer = "existing"]
          ELSE req)
    /\ UNCHANGED <<sessions, clients, transcriptions, summaries, suggestions, resp>>
    /\ sumFrame

\* the route reads the session's rows and builds the transcript
SummaryPostFetch(r) ==
    /\ sumReqs[r].pc = "fetch"
    /\ LET text == fullTranscript(OrderBy(RowsOf(sumReqs[r].sid), TranscriptOrder)) IN
       sumReqs' = IF text = <<>>
                  THEN Answer(r, "noTranscript")
                  ELSE SetReq(r, [sumReqs[r] EXCEPT !.pc = "verify", !.transcript = text])
    /\ UNCHANGED <<sessions, clients, transcriptions, summaries, suggestions, resp>>
    /\ sumFrame

\* generateSessionSummaryFromTranscript: "Check if summary already exists"
ExistingSummary(r) == sumReqs[r].sid \in summaries

\* generateSessionSummaryFromTranscript up to the text-generation call: the
\* session is verified, and an existing summary is returned as it is
SummaryPostVerify(r) ==
    /\ sumReqs[r].pc = "verify"
    /\ sumReqs' = IF ~Owns(sumReqs[r].caller, sumReqs[r].sid)
                  THEN Answer(r, "sessionError")
                  ELSE IF ExistingSummary(r)
                  THEN Answer(r, "existing")
                  ELSE SetReq(r, [sumReqs[r] EXCEPT !.pc = "generate"])
    /\ UNCHANGED <<sessions, clients, transcriptions, summaries, suggestions, resp>>
    /\ sumFrame

\* callOpenAIWithTranscript; aiOk tells whether the call and the parse of
\* its answer succeed
SummaryPostGenerate(r, aiOk) ==
    /\ sumReqs[r].pc = "generate"
    /\ sumReqs' = IF aiOk
                  THEN SetReq(r, [sumReqs[r] EXCEPT !.pc = "save", !.called = TRUE])
                  ELSE SetReq(r, [sumReqs[r] EXCEPT !.pc = "done", !.called = TRUE,
                                                    !.answer = "generationError"])
    /\ UNCHANGED <<sessions, clients, transcriptions, summaries, suggestions, resp>>
    /\ sumFrame

\* the store rejects the insert: session_id is unique in session_summaries
\* and a foreign key into sessions
InsertRejected(sid) == sid \in summaries \/ sid \notin DOMAIN sessions

\* saveSummary: a plain insert
SummaryPostSave(r) ==
    /\ sumReqs[r].pc = "save"
    /\ IF InsertRejected(sumReqs[r].sid)
       THEN /\ sumReqs' = Answer(r, "saveError")
            /\ UNCHANGED summaries
       ELSE /\ sumReqs' = Answer(r, "generated")
            /\ summaries' = summaries \cup {sumReqs[r].sid}
    /\ UNCHANGED <<sessions, clients, transcriptions, suggestions, resp>>
    /\ sumFrame

\* DELETE /api/sessions/[id]/summary (AISummaryService.deleteSessionSummary)
SummaryDelete(u, sid) ==
    /\ IF ~Owns(u, sid)
       THEN resp' = Touched(u, {}) /\ UNCHANGED summaries
       ELSE resp' = Touched(u, {sid}) /\ summaries' = summaries \ {sid}
    /\ UNCHANGED <<sessions, clients, transcriptions, suggestions>>
    /\ apiFrame

\* POST /api/sessions/[id]/suggestions
SuggestionPost(u, sid) ==
    /\ IF ~Owns(u, sid)
       THEN resp' = Touched(u, {}) /\ UNCHANGED suggestions
       ELSE resp' = Touched(u, {sid})
            /\ suggestions' = suggestions \cup {sid}
    /\ UNCHANGED <<sessions, clients, transcriptions, summaries>>
    /\ apiFrame

\* GET /api/sessions/[id]/suggestions (AISuggestionsService.getSuggestions)
SuggestionsGet(u, sid) ==
    /\ resp' = IF ~Owns(u, sid) THEN Touched(u, {})
               ELSE Touched(u, IF sid \in suggestions THEN {sid} ELSE {})
    /\ UNCHANGED <<sessions, clients, transcriptions, summaries, suggestions>>
    /\ apiFrame

\* ids a request may name: every id ever issued, and one never issued
RequestIds == 0..MaxSessions
ClientIds == 1..MaxClients
SessionStatuses == {"active", "completed"}
\* request bodies of PATCH: one allowed key each, one with no allowed key,
\* and two that carry an allowed key next to one that is not allowed
PatchBodies ==
    {("status" :> st) : st \in SessionStatuses}
        \cup {("client_id" :> c) : c \in ClientIds \cup {NoClient}}
        \cup {("metadata" :> "{ended}"), ("clerk_user_id" :> "u2")}
        \cup {("clerk_user_id" :> "u2") @@ ("status" :> "completed"),
              ("scenario_type" :> "conference") @@ ("metadata" :> "{ended}")}

ApiInit ==
    /\ RecInit
    /\ blobs = {}
    /\ transcriptions = <<>>
    /\ sessions = <<>>
    /\ clients = <<>>
    /\ summaries = {}
    /\ suggestions = {}
    /\ resp = NoResp
    /\ SideInit

ApiNext ==
    \/ \E u \in Users : CreateClient(u)
    \/ \E u \in Users, t \in {"in_person", "other"}, c \in ClientIds \cup {NoClient} :
          CreateSession(u, t, c)
    \/ \E u \in Users : ListSessions(u)
    \/ \E u \in Users, sid \in RequestIds : GetSession(u, sid)
    \/ \E u \in Users, sid \in RequestIds, b \in PatchBodies : PatchSession(u, sid, b)
    \/ \E u \in Users, sid \in RequestIds : DeleteSession(u, sid)
    \/ \E u \in Users, cid \in ClientIds : ClientSessions(u, cid)
    \/ \E u \in Users, sid \in RequestIds : PostTranscription(u, sid, T_hi, 0)
    \/ \E u \in Users, sid \in RequestIds : ListTranscriptions(u, sid)

SpecApi == ApiInit /\ [][ApiNext]_vars

\* SpecSummary: the summary and suggestion handlers over one session of u1
\* that has a transcript row
SummaryInit ==
    /\ RecInit
    /\ blobs = {}
    /\ transcriptions = <<TranscriptionRow(SessionId, T_hi, DefaultConfidence, 0, 0, NoUrl, 0)>>
    /\ sessions = (SessionId :> [clerk_user_id |-> "u1", scenario_type |-> "in_person",
                                 client_id |-> NoClient,
                                 status |-> "active", metadata |-> "{}"])
    /\ clients = <<>>
    /\ summaries = {}
    /\ suggestions = {}
    /\ resp = NoResp
    /\ SideInit

SummaryNext ==
    \/ \E u \in Users, sid \in RequestIds : SummaryGet(u, sid)
    \/ \E u \in Users, f \in BOOLEAN : SummaryPostCheck(u, SessionId, f)
    \/ \E r \in Requests : SummaryPostFetch(r)
    \/ \E r \in Requests : SummaryPostVerify(r)
    \/ \E r \in Requests, ok \in BOOLEAN : SummaryPostGenerate(r, ok)
    \/ \E r \in Requests : SummaryPostSave(r)
    \/ \E u \in Users, sid \in RequestIds : SummaryDelete(u, sid)
    \/ \E u \in Users, sid \in RequestIds : SuggestionPost(u, sid)
    \/ \E u \in Users, sid \in RequestIds : SuggestionsGet(u, sid)
    \/ \E u \in Users, sid \in RequestIds : DeleteSession(u, sid)

SpecSummary == SummaryInit /\ [][SummaryNext]_vars

(***************************************************************************)
(* SpecTranscript: the transcript the summary route builds, over every     *)
(* session of up to MaxTranscriptRows rows.  As in the hook, the chunk     *)
(* index and the timestamp of a row are taken at different moments, so all *)
(* combinations occur; the text follows the chunk index.                   *)
(***************************************************************************)
MaxTranscriptRows == 3

TranscriptTexts == <<T_hi, <<>>, T_bye>>

TranscriptRows ==
    {TranscriptionRow(SessionId, TranscriptTexts[idx + 1], DefaultConfidence, ts, idx, NoUrl, 0) :
        idx \in 0..2, ts \in 0..2}

RECURSIVE SeqsUpTo(_, _)
SeqsUpTo(S, n) ==
    IF n = 0 THEN {<<>>}
    ELSE SeqsUpTo(S, n - 1) \cup {Append(q, x) : q \in {p \in SeqsUpTo(S, n - 1) : Len(p) = n - 1}, x \in S}

TranscriptInit ==
    /\ RecInit
    /\ blobs = {}
    /\ transcriptions \in SeqsUpTo(TranscriptRows, MaxTranscriptRows)
    /\ sessions = (SessionId :> [clerk_user_id |-> "u1", scenario_type |-> "in_person",
                                 client_id |-> NoClient,
                                 status |-> "completed", metadata |-> "{}"])
    /\ clients = <<>>
    /\ summaries = {}
    /\ suggestions = {}
    /\ resp = NoResp
    /\ SideInit

TranscriptNext ==
    \/ SummaryPostCheck("u1", SessionId, TRUE)
    \/ \E r \in Requests : SummaryPostFetch(r)

SpecTranscript == TranscriptInit /\ [][TranscriptNext]_vars

(***************************************************************************)
(* Claims about ownership (SpecApi)                                        *)
(***************************************************************************)
\* C3: whatever the principals have done so far, a request returns to its
\* caller, or changes for its caller, only sessions (and rows of sessions)
\* that the caller owns.
C3_OnlyOwnerTouched == resp.owners \subseteq {resp.caller}

SameAnswer(a, b) == a.status = b.status /\ a.body = b.body

\* C4: for get, update and delete session and for list and save transcript
\* rows, a caller gets for an existing session of another principal exactly
\* the answer it gets for an id that does not exist.
C4_ForeignLooksMissing ==
    \A u \in Users, sid \in DOMAIN sessions :
        sessions[sid].clerk_user_id # u =>
            /\ SameAnswer(GetSessionAnswer(u, sid), GetSessionAnswer(u, MissingId))
            /\ \A b \in PatchBodies :
                  SameAnswer(PatchSessionAnswer(u, sid, b), PatchSessionAnswer(u, MissingId, b))
            /\ SameAnswer(DeleteSessionAnswer(u, sid), DeleteSessionAnswer(u, MissingId))
            /\ SameAnswer(SaveRowAnswer(u, sid), SaveRowAnswer(u, MissingId))
            /\ SameAnswer(ListRowsAnswer(u, sid), ListRowsAnswer(u, MissingId))

(***************************************************************************)
(* Stitcher: GET /api/sessions/[id]/post-processing.  The handler is not   *)
(* among the sources; it is modelled from section 4.5 of the               *)
(* specification.  Thresholds are scaled down: a session of LargeThreshold *)
(* chunks or more takes the batched path, in batches of BatchSize.         *)
(***************************************************************************)
MaxStitchChunks == 3
LargeThreshold == 3
BatchSize == 2

ChunkIndices == 1..3

\* the save time recorded with the chunk stored under key; it follows neither
\* the insertion order nor the chunk indices
ChunkTimestamp(key) == (key * 2) % 5

\* the bytes stored under an audio key: one or two bytes, all equal to the key
BlobBytes(key) == [j \in 1..(1 + (key % 2)) |-> key]

\* the transcript text saved with the chunk stored under key: every second
\* chunk was flagged by the filter and carries empty text
ChunkText(key) == IF key % 2 = 0 THEN <<>> ELSE <<"w", ToString(key)>>

\* a chunk record with a blob pointer is appended to the session
AddChunkRecord(sid, idx) ==
    LET key == Len(transcriptions) + 1 IN
    /\ Len(transcriptions) < MaxStitchChunks
    /\ transcriptions' = Append(transcriptions,
           TranscriptionRow(sid, ChunkText(key), IF ChunkText(key) = <<>> THEN 0 ELSE DefaultConfidence,
                            ChunkTimestamp(key), idx, key, key))
    /\ UNCHANGED <<recVars, blobs, apiVars, stitchVars, filterRun, gateRun, reqVars>>

\* variant: playback order by save time
StitchOrder_byTimestamp == "timestamp"

\* the authoritative playback order
StitchOrder == "chunk_index"

\* the session-derived key of the stitched artifact
ArtifactKey(sid) == <<sid, "stitched">>

NoPost == [stitched_audio_url |-> NoUrl, full_transcript |-> <<>>, total_duration |-> 0]
PostOf(sid) == IF sid \in DOMAIN post THEN post[sid] ELSE NoPost

\* variant: a failed download is not taken out of the list
Downloaded_keepsFailed(ordered, fails) == ordered

\* the chunks of an ordered list whose download succeeded
Downloaded(ordered, fails) == SelectSeq(ordered, LAMBDA r : r.audio_url \notin fails)

\* small path: every downloaded buffer concatenated once
RECURSIVE ConcatSmall(_, _)
ConcatSmall(ordered, fails) ==
    IF ordered = <<>> THEN <<>>
    ELSE (IF Head(ordered).audio_url \in fails THEN <<>> ELSE BlobBytes(Head(ordered).audio_url))
             \o ConcatSmall(Tail(ordered), fails)

\* the ordered list cut into batches of size chunks; the last may be shorter
RECURSIVE Batches(_, _)
Batches(ordered, size) ==
    IF ordered = <<>> THEN <<>>
    ELSE IF Len(ordered) <= size THEN <<ordered>>
    ELSE <<SubSeq(ordered, 1, size)>> \o Batches(SubSeq(ordered, size + 1, Len(ordered)), size)

RECURSIVE ConcatBuffers(_)
ConcatBuffers(buffers) ==
    IF buffers = <<>> THEN <<>> ELSE Head(buffers) \o ConcatBuffers(Tail(buffers))

\* variant: only full batches are concatenated
ConcatLarge_fullBatchesOnly(ordered, fails, size) ==
    LET batches == Batches(ordered, size) IN
    ConcatBuffers([b \in 1..(Len(ordered) \div size) |-> ConcatSmall(batches[b], fails)])

\* large path: one buffer per batch, then the batch buffers concatenated
ConcatLarge(ordered, fails, size) ==
    LET batches == Batches(ordered, size) IN
    ConcatBuffers([b \in 1..Len(batches) |-> ConcatSmall(batches[b], fails)])

\* size-tiered strategy, decided on the number of chunk records
StitchBytes(ordered, fails) ==
    IF Len(ordered) < LargeThreshold
    THEN ConcatSmall(ordered, fails)
    ELSE ConcatLarge(ordered, fails, BatchSize)

\* each chunk's non-empty transcript text, space-joined, in the same order
RECURSIVE JoinTexts(_)
JoinTexts(rows) ==
    IF rows = <<>> THEN <<>>
    ELSE IF Head(rows).text = <<>> THEN JoinTexts(Tail(rows))
    ELSE IF JoinTexts(Tail(rows)) = <<>> THEN Head(rows).text
    ELSE Head(rows).text \o <<" ">> \o JoinTexts(Tail(rows))

\* variant: the cache answers only a forced request
CacheHit_whenForced(sid, force, mintOk) ==
    PostOf(sid).stitched_audio_url # NoUrl /\ force /\ mintOk

\* the cache answers: a pointer exists, regeneration is not forced, and a
\* fresh access URL could be minted
CacheHit(sid, force, mintOk) ==
    PostOf(sid).stitched_audio_url # NoUrl /\ ~force /\ mintOk

\* variant: an empty download list is stitched like any other
NothingToStitch_never(downloaded) == FALSE

NothingToStitch(downloaded) == downloaded = <<>>

Stitch(sid, force, fails, mintOk) ==
    LET ordered == OrderBy(RowsOf(sid), StitchOrder)
        downloaded == Downloaded(ordered, fails)
    IN
    /\ sid \in DOMAIN sessions
    /\ IF CacheHit(sid, force, mintOk)
       THEN /\ stitchResp' = [status |-> "ok", cached |-> TRUE, chunkCount |-> Len(ordered),
                              skipped |-> {}, url |-> PostOf(sid).stitched_audio_url]
            /\ UNCHANGED <<artifacts, post>>
       ELSE IF NothingToStitch(downloaded)
       THEN /\ stitchResp' = [status |-> "error", cached |-> FALSE, chunkCount |-> 0,
                              skipped |-> {r.audio_url : r \in Range(ordered)}, url |-> NoUrl]
            /\ UNCHANGED <<artifacts, post>>
       ELSE /\ artifacts' = (sid :> StitchBytes(ordered, fails)) @@ artifacts
            /\ post' = (sid :> [stitched_audio_url |-> ArtifactKey(sid),
                                full_transcript |-> JoinTexts(downloaded),
                                total_duration |-> Len(downloaded) * ChunkSeconds]) @@ post
            /\ stitchResp' = [status |-> "ok", cached |-> FALSE, chunkCount |-> Len(downloaded),
                              skipped |-> {r.audio_url : r \in Range(ordered)} \cap fails,
                              url |-> ArtifactKey(sid)]
    /\ UNCHANGED <<recVars, blobs, transcriptions, apiVars, filterRun, gateRun, reqVars>>

AudioKeys == 1..MaxStitchChunks

\* the mint is attempted only for an existing pointer and an unforced request
MintOutcomes(sid, force) ==
    IF PostOf(sid).stitched_audio_url # NoUrl /\ ~force THEN BOOLEAN ELSE {TRUE}

\* the downloads that may fail: none is attempted when the cache answers
DownloadOutcomes(sid, force, mintOk) ==
    IF CacheHit(sid, force, mintOk)
    THEN {{}}
    ELSE SUBSET {r.audio_url : r \in Range(RowsOf(sid))}

StitchInit ==
    /\ RecInit
    /\ blobs = {}
    /\ transcriptions = <<>>
    /\ sessions = (SessionId :> [clerk_user_id |-> "u1", scenario_type |-> "in_person",
                                 client_id |-> NoClient,
                                 status |-> "completed", metadata |-> "{}"])
    /\ clients = <<>>
    /\ summaries = {}
    /\ suggestions = {}
    /\ resp = NoResp
    /\ SideInit

StitchNext ==
    \/ \E idx \in ChunkIndices : AddChunkRecord(SessionId, idx)
    \/ \E force \in BOOLEAN :
          \E mintOk \in MintOutcomes(SessionId, force) :
              \E fails \in DownloadOutcomes(SessionId, force, mintOk) :
                  Stitch(SessionId, force, fails, mintOk)

SpecStitch == StitchInit /\ [][StitchNext]_vars

(***************************************************************************)
(* Claims about the Stitcher (SpecStitch)                                  *)
(***************************************************************************)
\* the last stitch request recomputed the artifact and succeeded
FreshStitch == stitchResp.status = "ok" /\ ~stitchResp.cached

\* the chunk records that request read: rows are only appended, so they are
\* the first chunkCount + |skipped| rows of the session
AtStitch ==
    SubSeq(RowsOf(SessionId), 1, stitchResp.chunkCount + Cardinality(stitchResp.skipped))

\* of those, the ones whose download succeeded
Kept == SelectSeq(AtStitch, LAMBDA r : r.audio_url \notin stitchResp.skipped)

RowOfKey(key) == CHOOSE r \in Range(transcriptions) : r.audio_url = key

\* C5: a stitched artifact holds the downloaded chunks' audio in (chunk
\* index ascending, then timestamp ascending) order, whatever the insertion
\* order and the timestamps of the records are.
C5_StitchedInIndexOrder ==
    FreshStitch =>
        LET bytes == artifacts[SessionId] IN
        /\ Range(bytes) = {r.audio_url : r \in Range(Kept)}
        /\ \A i, j \in 1..Len(bytes) :
              i < j =>
                  LET a == RowOfKey(bytes[i])
                      b == RowOfKey(bytes[j])
                  IN \/ a.chunk_index < b.chunk_index
                     \/ a.chunk_index = b.chunk_index /\ a.timestamp <= b.timestamp

\* records inserted with indices 3, 1, 2 are stitched as chunks 1, 2, 3
C5_Witness ==
    /\ FreshStitch
    /\ stitchResp.skipped = {}
    /\ Len(transcriptions) = 3
    /\ [i \in 1..3 |-> transcriptions[i].chunk_index] = <<3, 1, 2>>
    /\ artifacts[SessionId] = BlobBytes(2) \o BlobBytes(3) \o BlobBytes(1)

\* C6: a stitch request without forced regeneration, for a session that
\* already has a stitched artifact and whose access URL can be minted,
\* answers cached=true with the URL of the existing artifact and recomputes
\* nothing: artifact and session columns stay as the first call left them.
C6_SecondStitchCached ==
    [][(/\ PostOf(SessionId).stitched_audio_url # NoUrl
        /\ \E fails \in DownloadOutcomes(SessionId, FALSE, TRUE) :
              Stitch(SessionId, FALSE, fails, TRUE))
          => /\ stitchResp'.cached
             /\ stitchResp'.url = PostOf(SessionId).stitched_audio_url
             /\ artifacts' = artifacts
             /\ post' = post]_vars

C6_Witness ==
    /\ stitchResp.status = "ok"
    /\ stitchResp.cached
    /\ stitchResp.url = ArtifactKey(SessionId)
    /\ SessionId \in DOMAIN artifacts
    /\ artifacts[SessionId] = StitchBytes(OrderBy(RowsOf(SessionId), StitchOrder), {})

\* C7: for the session's ordered chunk list, every batch size and every set
\* of failed downloads, the batched concatenation equals the single
\* concatenation; and the artifact a stitch stored, whichever path it took,
\* is the single concatenation of what it downloaded.
C7_BatchedEqualsSmall ==
    /\ \A fails \in SUBSET AudioKeys, size \in 1..MaxStitchChunks :
          LET ordered == OrderBy(RowsOf(SessionId), StitchOrder) IN
          ConcatLarge(ordered, fails, size) = ConcatSmall(ordered, fails)
    /\ FreshStitch =>
          artifacts[SessionId] = ConcatSmall(OrderBy(AtStitch, StitchOrder), stitchResp.skipped)

\* a large session whose chunk count is not a multiple of the batch size was
\* stitched with a skipped download
C7_Witness ==
    /\ FreshStitch
    /\ Len(AtStitch) >= LargeThreshold
    /\ Len(AtStitch) % BatchSize # 0
    /\ stitchResp.skipped # {}
    /\ Len(artifacts[SessionId]) > 0

\* C8: when some but not all downloads fail, stitch succeeds, chunkCount is
\* the number of chunks downloaded, and artifact, full transcript and
\* duration are those of the session without the failed chunks.
C8_PartialFailure ==
    (FreshStitch /\ stitchResp.skipped # {}) =>
        /\ stitchResp.chunkCount + Cardinality(stitchResp.skipped) <= Len(RowsOf(SessionId))
        /\ stitchResp.chunkCount = Len(Kept)
        /\ stitchResp.chunkCount > 0
        /\ artifacts[SessionId] = ConcatSmall(OrderBy(Kept, StitchOrder), {})
        /\ post[SessionId].full_transcript = JoinTexts(OrderBy(Kept, StitchOrder))
        /\ \A k \in stitchResp.skipped :
              \A i \in 1..Len(post[SessionId].full_transcript) :
                  post[SessionId].full_transcript[i] # ToString(k)

\* one of three chunks, one that has text, failed to download
C8_Witness ==
    /\ FreshStitch
    /\ stitchResp.skipped = {1}
    /\ stitchResp.chunkCount = 2
    /\ transcriptions[1].text # <<>>
    /\ post[SessionId].full_transcript = transcriptions[3].text

\* C9: a stitch that attempts the downloads and sees every one fail answers
\* with an error and writes nothing: no artifact, and the session's pointer,
\* full transcript and duration stay as they were.
C9_TotalFailure ==
    [][\A force \in BOOLEAN, mintOk \in BOOLEAN :
          (/\ RowsOf(SessionId) # <<>>
           /\ ~CacheHit(SessionId, force, mintOk)
           /\ Stitch(SessionId, force, AudioKeys, mintOk))
             => /\ stitchResp'.status = "error"
                /\ artifacts' = artifacts
                /\ post' = post]_vars

C9_Witness ==
    /\ stitchResp.status = "error"
    /\ Cardinality(stitchResp.skipped) = 3
    /\ SessionId \notin DOMAIN artifacts
    /\ PostOf(SessionId) = NoPost

(***************************************************************************)
(* SpecFilter: the filter of POST /api/transcribe applied to one Whisper   *)
(* answer, drawn from texts built of up to MaxFragments fragments.         *)
(***************************************************************************)
MaxFragments == 3

\* 100 characters free of every phrase, and a blank
F_pad == [i \in 1..(HallucinationMaxLen + 1) |-> IF i > HallucinationMaxLen THEN " " ELSE "a"]
F_hello == <<"H", "e", "l", "l", "o", " ">>
F_thank_you == <<"T", "h", "a", "n", "k", " ", "y", "o", "u", " ">>
F_shop_com == <<"s", "h", "o", "p", ".", "c", "o", "m", " ">>
F_for_all == <<"f", "o", "r", " ", "a", "l", "l", " ">>
F_go_to == <<"G", "o", " ", "t", "o", " ">>
F_beadaholique == <<"b", "e", "a", "d", "a", "h", "o", "l", "i", "q", "u", "e", " ">>
F_bye == <<"B", "y", "e", " ">>
F_thanks_bye == <<"T", "h", "a", "n", "k", " ", "y", "o", "u", " ", "s", "o", " ", "m", "u", "c", "h",
                  ",", " ", "b", "y", "e", " ", "b", "y", "e", "!">>

Fragments ==
    {F_pad, F_hello, F_thank_you, F_shop_com, F_for_all, F_go_to, F_beadaholique, F_bye,
     F_thanks_bye}

\* transcription.text as the speech-to-text call may return it
FilterInputs ==
    {ConcatBuffers(fs) : fs \in UNION {[1..n -> Fragments] : n \in 0..MaxFragments}}

FilterInit ==
    /\ RecInit
    /\ blobs = {}
    /\ transcriptions = <<>>
    /\ sessions = <<>>
    /\ clients = <<>>
    /\ summaries = {}
    /\ suggestions = {}
    /\ resp = NoResp
    /\ artifacts = <<>>
    /\ post = <<>>
    /\ stitchResp = NoStitch
    /\ \E t \in FilterInputs : filterRun = [text |-> t, answer |-> <<>>]
    /\ gateRun = NoGateRun
    /\ ReqInit

\* the handler from the Whisper answer to its JSON answer
RunFilter ==
    /\ filterRun.answer = <<>>
    /\ filterRun' = [filterRun EXCEPT !.answer = <<FilterResult(filterRun.text)>>]
    /\ UNCHANGED <<recVars, blobs, transcriptions, apiVars, stitchVars, gateRun, reqVars>>

FilterNext == RunFilter

SpecFilter == FilterInit /\ [][FilterNext]_vars

(***************************************************************************)
(* Claims about the filter (SpecFilter)                                    *)
(***************************************************************************)
NoFillerPhrase(text) ==
    \A i \in 1..Len(hallucinations) :
        ~includes(toLowerCase(text), toLowerCase(hallucinations[i]))

FewThankYou(text) == matchCount(toLowerCase(text), S_thank_you) < ThankYouRepeats

NoAdvertising(text) ==
    LET lower == toLowerCase(text) IN
    /\ ~(includes(lower, S_dot_com) /\ includes(lower, S_for_all))
    /\ ~includes(lower, S_beadaholique)
    /\ ~(includes(lower, S_go_to) /\ includes(lower, S_dot_com))

ReturnedUnchanged ==
    /\ filterRun.answer[1].text = filterRun.text
    /\ filterRun.answer[1].confidence = DefaultConfidence
    /\ filterRun.answer[1].confidence > 0

\* C10 as stated: a text of any length with none of the listed phrases and
\* fewer than 3 occurrences of "thank you" is returned unchanged with the
\* default confidence.
C10_CleanTextUnchanged ==
    (/\ filterRun.answer # <<>>
     /\ NoFillerPhrase(filterRun.text)
     /\ FewThankYou(filterRun.text))
        => ReturnedUnchanged

\* C10 amended: a text of any length with none of the listed phrases,
\* fewer than 3 occurrences of "thank you" and no advertising pattern
\* (".com" with "for all", "beadaholique", "go to" with ".com") is returned
\* unchanged with the default confidence.
C10_NonAdvertisingTextUnchanged ==
    (/\ filterRun.answer # <<>>
     /\ NoFillerPhrase(filterRun.text)
     /\ FewThankYou(filterRun.text)
     /\ NoAdvertising(filterRun.text))
        => ReturnedUnchanged

\* a text of 100 characters or more that names a domain was passed through
C10_Witness ==
    /\ filterRun.answer # <<>>
    /\ Len(filterRun.text) >= HallucinationMaxLen
    /\ includes(filterRun.text, S_dot_com)
    /\ NoFillerPhrase(filterRun.text)
    /\ ReturnedUnchanged

Flagged ==
    /\ filterRun.answer[1].text = <<>>
    /\ filterRun.answer[1].confidence = 0

\* C11: a text shorter than 100 characters that contains, in any letter
\* case, a phrase of the list is answered with empty text and confidence 0;
\* a text of 100 characters or more that contains such a phrase, but fewer
\* than 3 "thank you", no provenance marker and no advertising pattern, is
\* returned unchanged.
C11_ShortFillerFlagged ==
    filterRun.answer # <<>> =>
        /\ (Len(filterRun.text) < HallucinationMaxLen /\ ~NoFillerPhrase(filterRun.text))
              => Flagged
        /\ (/\ Len(filterRun.text) >= HallucinationMaxLen
            /\ FewThankYou(filterRun.text)
            /\ ~includes(toLowerCase(filterRun.text), S_otter_ai)
            /\ ~includes(toLowerCase(filterRun.text), S_transcribed_by)
            /\ ~includes(toLowerCase(filterRun.text), S_supplies_needs)
            /\ NoAdvertising(filterRun.text))
              => ReturnedUnchanged

\* "Thank you so much, bye bye!" was flagged
C11_Witness ==
    /\ filterRun.answer # <<>>
    /\ filterRun.text = F_thanks_bye
    /\ Flagged

(***************************************************************************)
(* SpecGate: transcribeAudio's gate applied to one chunk, whose analysis   *)
(* fails or decodes to up to MaxRuns runs of samples.                      *)
(***************************************************************************)
MaxRuns == 2

Amplitudes == {-11, 0, 1, 2, 6, 10, 11}
RunLengths == {1, 2, 99}
GateFailures == GateOutcomes \ {"significant", "silent"}

ChannelInputs ==
    UNION {[1..n -> [value : Amplitudes, count : RunLengths]] : n \in 0..MaxRuns}

GateInit ==
    /\ RecInit
    /\ blobs = {}
    /\ transcriptions = <<>>
    /\ sessions = <<>>
    /\ clients = <<>>
    /\ summaries = {}
    /\ suggestions = {}
    /\ resp = NoResp
    /\ artifacts = <<>>
    /\ post = <<>>
    /\ stitchResp = NoStitch
    /\ filterRun = [text |-> <<>>, answer |-> <<>>]
    /\ \E f \in GateFailures \cup {"none"}, d \in ChannelInputs :
          gateRun = [NoGateRun EXCEPT !.failure = f, !.channelData = d]
    /\ ReqInit

\* transcribeAudio from the await of checkAudioVolume to the branch on it
RunGate ==
    /\ gateRun.pc = "gate"
    /\ LET hasAudio == checkAudioVolumeOf(gateRun.failure, gateRun.channelData) IN
       gateRun' = [gateRun EXCEPT !.hasAudio = <<hasAudio>>,
                                  !.pc = IF hasAudio THEN "request" ELSE "skipped"]
    /\ UNCHANGED <<recVars, blobs, transcriptions, apiVars, stitchVars, filterRun, reqVars>>

GateNext == RunGate

SpecGate == GateInit /\ [][GateNext]_vars

(***************************************************************************)
(* Claims about the signal gate (SpecGate)                                 *)
(***************************************************************************)
\* the samples of the decoded chunk, one by one
RECURSIVE Samples(_)
Samples(channelData) ==
    IF channelData = <<>> THEN <<>>
    ELSE [i \in 1..Head(channelData).count |-> Head(channelData).value]
             \o Samples(Tail(channelData))

Decoded == gateRun.hasAudio # <<>> /\ gateRun.failure = "none"

PeakTest(samples) == \E i \in 1..Len(samples) : abs(samples[i]) > PeakThreshold
\* the sum of the samples' amplitudes, taken amplitude by amplitude
RECURSIVE AmplitudeSum(_, _)
AmplitudeSum(amplitudes, samples) ==
    IF amplitudes = {} THEN 0
    ELSE LET a == CHOOSE x \in amplitudes : TRUE IN
         a * Cardinality({i \in 1..Len(samples) : abs(samples[i]) = a})
             + AmplitudeSum(amplitudes \ {a}, samples)
MeanTest(samples) ==
    AmplitudeSum({abs(samples[i]) : i \in 1..Len(samples)}, samples)
        > MeanThreshold * Len(samples)
PercentTest(samples) ==
    Cardinality({i \in 1..Len(samples) : abs(samples[i]) > LowThreshold}) * 100
        > PercentThreshold * Len(samples)

\* C12: for a decoded chunk the gate passes exactly when the peak amplitude
\* is above 0.01, or the mean absolute amplitude is above 0.001, or more
\* than 1% of the samples are above 0.005.
C12_GatePassesIffAnyTest ==
    Decoded =>
        LET samples == Samples(gateRun.channelData) IN
        gateRun.hasAudio[1] <=> (PeakTest(samples) \/ MeanTest(samples) \/ PercentTest(samples))

\* one sample of 0.011 among a hundred passes, with mean 0.00011 and 1% of
\* the samples above the low threshold
C12_Witness ==
    /\ Decoded
    /\ gateRun.channelData = <<[value |-> 11, count |-> 1], [value |-> 0, count |-> 99]>>
    /\ gateRun.hasAudio = <<TRUE>>
    /\ gateRun.pc = "request"

C14_BlobStoredBeforeTranscription ==
    \A c \in Chunks :
        /\ chunks[c].pc = "uploaded" => audioFileName(c) \in blobs
        /\ chunks[c].ok => audioFileName(c) \in blobs

(***************************************************************************)
(* SpecLoop: the recorder from a moment in a running recording, one second *)
(* before the interval fires, so that several ticks fall within MaxTime.   *)
(* The storage upload succeeds and Whisper answers one text; gate,         *)
(* transcription and save may still fail.                                  *)
(***************************************************************************)
LoopInit ==
    /\ mrState = "recording"
    /\ isRecording = TRUE
    /\ isProcessing = FALSE
    /\ error = NULL
    /\ intervalRef = TRUE
    /\ streamRef = "processedWithContext"
    /\ micLive = TRUE
    /\ ctxOpen = TRUE
    /\ events = <<>>
    /\ chunksRef = 0
    /\ started = TRUE
    /\ now = 0
    /\ nextTick = 1
    /\ chunks = <<>>
    /\ blobs = {}
    /\ transcriptions = <<>>
    /\ sessions = (SessionId :> [clerk_user_id |-> "u1", scenario_type |-> "in_person",
                                 client_id |-> NoClient,
                                 status |-> "active", metadata |-> "{}"])
    /\ clients = <<>>
    /\ summaries = {}
    /\ suggestions = {}
    /\ resp = NoResp
    /\ SideInit

LoopNext ==
    \/ Advance /\ UNCHANGED <<apiVars, stitchVars, filterRun, gateRun, reqVars>>
    \/ IntervalTick /\ UNCHANGED <<apiVars, stitchVars, filterRun, gateRun, reqVars>>
    \/ ondataavailable(1) /\ UNCHANGED <<apiVars, stitchVars, filterRun, gateRun, reqVars>>
    \/ onstop /\ UNCHANGED <<apiVars, stitchVars, filterRun, gateRun, reqVars>>
    \/ stopRecording /\ UNCHANGED <<apiVars, stitchVars, filterRun, gateRun, reqVars>>
    \/ \E c \in Chunks, o \in {"significant", "silent"} :
          Gate(c, o) /\ UNCHANGED <<apiVars, stitchVars, filterRun, gateRun, reqVars>>
    \/ \E c \in Chunks :
          TranscribeUpload(c, "stored") /\ UNCHANGED <<apiVars, stitchVars, filterRun, gateRun, reqVars>>
    \/ \E c \in Chunks, threw \in BOOLEAN :
          TranscribeWhisper(c, threw, T_hi) /\ UNCHANGED <<apiVars, stitchVars, filterRun, gateRun, reqVars>>
    \/ \E c \in Chunks :
          TranscribeResponse(c) /\ UNCHANGED <<apiVars, stitchVars, filterRun, gateRun, reqVars>>
    \/ \E c \in Chunks :
          TranscribeFetchFails(c) /\ UNCHANGED <<apiVars, stitchVars, filterRun, gateRun, reqVars>>
    \/ \E c \in Chunks, dbOk \in BOOLEAN :
          SaveTranscription(c, dbOk) /\ UNCHANGED <<apiVars, stitchVars, filterRun, gateRun, reqVars>>
    \/ \E c \in Chunks :
          SaveSettled(c) /\ UNCHANGED <<apiVars, stitchVars, filterRun, gateRun, reqVars>>

SpecLoop == LoopInit /\ [][LoopNext]_vars

(***************************************************************************)
(* Claims about the recording loop (SpecLoop)                              *)
(***************************************************************************)
\* the pipeline of chunk c has not come to its end
InFlight(c) == chunks[c].pc \notin {"skipped", "failed", "done"}

\* C15: while the interval is installed a due tick can always fire, and a
\* queued recorder event can always be handled, whatever the states of the
\* chunk pipelines; a tick taken while recording queues the emission of the
\* current buffer and leaves the recorder capturing, and the stop handler
\* hands a non-empty buffer to a new pipeline.
C15_TickNeverWaits ==
    /\ []((intervalRef /\ now >= nextTick) => ENABLED IntervalTick)
    /\ []((events # <<>> /\ Head(events) = "stop") => ENABLED onstop)
    /\ [][(IntervalTick /\ mrState = "recording")
            => /\ events' = events \o <<"dataavailable", "stop">>
               /\ mrState' = "recording"
               /\ chunks' = chunks]_vars
    /\ [][(onstop /\ chunksRef > 0) => Len(chunks') = Len(chunks) + 1]_vars

\* the interval emitted a second chunk, which has already been sent, while
\* the first chunk is still waiting at the gate
C15_Witness ==
    /\ intervalRef
    /\ mrState = "recording"
    /\ Len(chunks) = 2
    /\ chunks[1].pc = "gate"
    /\ chunks[2].pc = "request"

\* some step of chunk c's pipeline
PipelineStep(c) ==
    \/ \E o \in GateOutcomes : Gate(c, o)
    \/ \E o \in {"stored", "uploadError", "unauthorized"} : TranscribeUpload(c, o)
    \/ \E threw \in BOOLEAN, t \in WhisperTexts : TranscribeWhisper(c, threw, t)
    \/ TranscribeResponse(c)
    \/ TranscribeFetchFails(c)
    \/ \E dbOk \in BOOLEAN : SaveTranscription(c, dbOk)
    \/ SaveSettled(c)

\* C16: stopRecording removes the interval, so that no tick fires afterwards;
\* if the recorder was recording it queues exactly one emission of the
\* buffer, and otherwise none; the stop handler empties the buffer it hands
\* over, and once the queue is drained no further chunk appears;
\* stopRecording leaves every chunk pipeline as it is, and a chunk in flight
\* can still take its next step.
C16_StopFlushesOnce ==
    /\ [][stopRecording
            => /\ ~intervalRef'
               /\ chunks' = chunks
               /\ IF mrState = "recording"
                  THEN events' = events \o <<"dataavailable", "stop">> /\ mrState' = "inactive"
                  ELSE events' = events /\ mrState' = mrState]_vars
    /\ [](~intervalRef => ~ENABLED IntervalTick)
    /\ [][~intervalRef => ~intervalRef']_vars
    /\ [][onstop => chunksRef' = 0 /\ Len(chunks') <= Len(chunks) + 1]_vars
    /\ [][(mrState = "inactive" /\ events = <<>>) => Len(chunks') = Len(chunks)]_vars
    /\ [](\A c \in Chunks : InFlight(c) => ENABLED PipelineStep(c))

\* the recording was stopped between two ticks: the final chunk has been
\* emitted, and the chunk sent before the stop is still in flight
C16_Witness ==
    /\ ~intervalRef
    /\ mrState = "inactive"
    /\ events = <<>>
    /\ chunksRef = 0
    /\ nextTick = 1 + ChunkSeconds
    /\ Len(chunks) = 2
    /\ chunks[1].pc = "uploaded"
    /\ chunks[2].pc = "gate"

\* C17: once a recording session is over (startRecording failed, or
\* stopRecording has run) no microphone track and no audio context that
\* startRecording acquired is still open.
C17_ResourcesReleased ==
    (started /\ mrState # "recording") => (~micLive /\ ~ctxOpen)

\* C18: a chunk the gate rejects is only marked skipped: the step changes no
\* blob, no record, no other chunk and nothing of the recorder, and a
\* skipped chunk never has a blob, a record or a further step.
C18_RejectedChunkHasNoEffect ==
    /\ [][\A c \in Chunks :
            Gate(c, "silent")
              => /\ chunks'[c] = [chunks[c] EXCEPT !.pc = "skipped"]
                 /\ \A d \in Chunks \ {c} : chunks'[d] = chunks[d]
                 /\ UNCHANGED <<blobs, transcriptions, isProcessing, error, mrState,
                                isRecording, intervalRef, events, chunksRef, nextTick>>]_vars
    /\ [](\A c \in Chunks :
            chunks[c].pc = "skipped"
              => /\ audioFileName(c) \notin blobs
                 /\ chunks[c].audioUrl = NoUrl
                 /\ \A i \in Rows : transcriptions[i].chunk # c
                 /\ ~ENABLED PipelineStep(c))

\* the first chunk was skipped and the second was transcribed and saved
C18_Witness ==
    /\ Len(chunks) = 2
    /\ chunks[1].pc = "skipped"
    /\ chunks[2].pc = "done"
    /\ blobs = {audioFileName(2)}
    /\ Len(transcriptions) = 1
    /\ transcriptions[1].chunk = 2

\* the transcription or the save of chunk c fails
ChunkFails(c) ==
    \/ TranscribeFetchFails(c)
    \/ \E t \in WhisperTexts : TranscribeWhisper(c, TRUE, t)
    \/ TranscribeResponse(c) /\ ~chunks[c].ok
    \/ SaveTranscription(c, FALSE)

\* C19: a failing transcription or save of one chunk leaves the recorder
\* recording, the interval installed, the queued events and every other
\* chunk's pipeline as they are; a due tick stays enabled and every chunk in
\* flight keeps a next step.
C19_FailureStaysLocal ==
    /\ [][\A c \in Chunks :
            ChunkFails(c)
              => /\ UNCHANGED <<mrState, isRecording, intervalRef, events, chunksRef,
                                nextTick, streamRef>>
                 /\ \A d \in Chunks \ {c} : chunks'[d] = chunks[d]]_vars
    /\ []((intervalRef /\ now >= nextTick) => ENABLED IntervalTick)
    /\ [](\A c \in Chunks : InFlight(c) => ENABLED PipelineStep(c))

\* the first chunk failed; the recorder is still recording and the second
\* chunk has been transcribed and saved
C19_Witness ==
    /\ isRecording
    /\ intervalRef
    /\ mrState = "recording"
    /\ Len(chunks) = 2
    /\ chunks[1].pc = "failed"
    /\ chunks[2].pc = "done"
    /\ Len(transcriptions) = 1
    /\ transcriptions[1].chunk = 2

C21_TranscriptInChunkOrder ==
    \A r \in Requests :
        sumReqs[r].pc = "verify" =>
            sumReqs[r].transcript = JoinTexts(OrderBy(RowsOf(sumReqs[r].sid), "chunk"))

(***************************************************************************)
(* SpecParse: the parse of one text-generation response by the summary     *)
(* service and by the suggestions service, over responses built of up to   *)
(* MaxParts fragments.                                                     *)
(***************************************************************************)
MaxParts == 4

\* the backquote of a fence is written as a quote: a string of this
\* language cannot hold a backquote

P_fence_json == <<"'", "'", "'", "j", "s", "o", "n">>
P_fence == <<"'", "'", "'">>
P_object == <<"{", "\"", "k", "\"", ":", "1", "}">>
P_open == <<"{">>
P_close == <<"}">>
P_prose == <<"o", "k">>
P_blank == <<" ">>

Parts == {P_fence_json, P_fence, P_object, P_open, P_close, P_prose, P_blank}

\* completion.choices[0]?.message?.content
ParseInputs == {ConcatBuffers(ps) : ps \in UNION {[1..n -> Parts] : n \in 0..MaxParts}}

\* the documents JSON.parse accepts among the texts built of Parts, blanks
\* apart: a text that starts an object can only go on with "}" or be the
\* whole object
JsonDocuments == {P_open \o P_close, P_object}

\* JSON.parse(t) returns (rather than throwing)
JSONparses(t) == SelectSeq(t, LAMBDA c : c # " ") \in JsonDocuments

\* String.prototype.indexOf(p, from), counted from 1; 0 when p is not found
indexOf(t, p, from) ==
    LET hits == {i \in Occurrences(t, p) : i >= from} IN
    IF hits = {} THEN 0 ELSE CHOOSE i \in hits : \A j \in hits : i <= j

\* String.prototype.lastIndexOf(p), counted from 1; 0 when p is not found
lastIndexOf(t, p) ==
    LET hits == Occurrences(t, p) IN
    IF hits = {} THEN 0 ELSE CHOOSE i \in hits : \A j \in hits : i >= j

\* aiResponse.match of an opening json fence, blanks, a lazy capture,
\* blanks and a closing fence: <<capture>>, or <<>> when there is no match
jsonMatch(t) ==
    LET open == indexOf(t, P_fence_json, 1)
        rest == IF open = 0 THEN <<>>
                ELSE trimStart(SubSeq(t, open + Len(P_fence_json), Len(t)))
        close == indexOf(rest, P_fence, 1)
    IN
    IF open = 0 \/ close = 0 THEN <<>> ELSE <<trimEnd(SubSeq(rest, 1, close - 1))>>

\* aiResponse.slice(jsonStart, jsonEnd + 1): <<slice>>, or <<>> when the
\* braces are missing or out of order
jsonContent(t) ==
    LET jsonStart == indexOf(t, P_open, 1)
        jsonEnd == lastIndexOf(t, P_close)
    IN
    IF jsonStart # 0 /\ jsonEnd # 0 /\ jsonEnd > jsonStart
    THEN <<SubSeq(t, jsonStart, jsonEnd)>> ELSE <<>>

\* callOpenAIWithTranscript from the response to parsedResponse: the stage
\* that produced it, or the error thrown
parseSummaryResponse(aiResponse) ==
    IF aiResponse = <<>> THEN "noResponse"
    ELSE IF JSONparses(aiResponse) THEN "strict"
    ELSE IF jsonMatch(aiResponse) # <<>> /\ jsonMatch(aiResponse)[1] # <<>>
    THEN IF JSONparses(jsonMatch(aiResponse)[1]) THEN "fenced" ELSE "invalid"
    ELSE IF jsonContent(aiResponse) # <<>>
    THEN IF JSONparses(jsonContent(aiResponse)[1]) THEN "brace" ELSE "invalid"
    ELSE "invalid"

\* AISuggestionsService.callOpenAI from the response to parsedResponse
parseSuggestionsResponse(aiResponse) ==
    IF aiResponse = <<>> THEN "noResponse"
    ELSE IF JSONparses(aiResponse) THEN "strict"
    ELSE "invalid"

ParseInit ==
    /\ RecInit
    /\ blobs = {}
    /\ transcriptions = <<>>
    /\ sessions = <<>>
    /\ clients = <<>>
    /\ summaries = {}
    /\ suggestions = {}
    /\ resp = NoResp
    /\ artifacts = <<>>
    /\ post = <<>>
    /\ stitchResp = NoStitch
    /\ filterRun = [text |-> <<>>, answer |-> <<>>]
    /\ gateRun = NoGateRun
    /\ \E t \in ParseInputs : parseRun = [NoParse EXCEPT !.response = t]
    /\ sumReqs = <<>>
    /\ endRun = NoEnd
    /\ audioReq = [v \in Views |-> NoAudio]

parseFrame == UNCHANGED <<recVars, blobs, transcriptions, apiVars, stitchVars, filterRun,
                          gateRun, sumReqs, endRun, audioReq>>

\* the summary service parses the response
ParseSummary ==
    /\ parseRun.summary = <<>>
    /\ parseRun' = [parseRun EXCEPT !.summary = <<parseSummaryResponse(parseRun.response)>>]
    /\ parseFrame

\* the suggestions service parses the response
ParseSuggestions ==
    /\ parseRun.suggestions = <<>>
    /\ parseRun' = [parseRun EXCEPT
                       !.suggestions = <<parseSuggestionsResponse(parseRun.response)>>]
    /\ parseFrame

ParseNext == ParseSummary \/ ParseSuggestions

SpecParse == ParseInit /\ [][ParseNext]_vars

(***************************************************************************)
(* Claims about the parse of a text-generation response (SpecParse)        *)
(***************************************************************************)
StrictParses(t) == JSONparses(t)

FencedParses(t) == jsonMatch(t) # <<>> /\ JSONparses(jsonMatch(t)[1])

BraceParses(t) == jsonContent(t) # <<>> /\ JSONparses(jsonContent(t)[1])

\* the answer the three stages, tried in order, give for a response
ThreeStages(t) ==
    IF StrictParses(t) THEN "strict"
    ELSE IF FencedParses(t) THEN "fenced"
    ELSE IF BraceParses(t) THEN "brace"
    ELSE "invalid"

\* C22: for a non-empty response, the summary service and the suggestions
\* service each return what the first successful of strict parse, fenced
\* block and brace-delimited substring gives, and report the invalid-format
\* error only when all three have failed.
C22_ThreeStagesBeforeFailing ==
    parseRun.response # <<>> =>
        /\ parseRun.summary # <<>> => parseRun.summary[1] = ThreeStages(parseRun.response)
        /\ parseRun.suggestions # <<>> =>
              parseRun.suggestions[1] = ThreeStages(parseRun.response)

(***************************************************************************)
(* SpecEnd: SessionView.endSession over a running recording, from the      *)
(* moment the first tick has emitted a chunk.  The pipelines go on as in   *)
(* SpecLoop, with every stage succeeding; endSession stops the recorder,   *)
(* updates the session and, without awaiting it, asks for post-processing. *)
(***************************************************************************)
\* the transcriptions the view holds: one per onTranscription call
UiTranscriptions == {c \in Chunks : chunks[c].pc = "done" /\ trim(chunks[c].text) # <<>>}

\* updateData: status and metadata
EndBody == ("status" :> "completed") @@ ("metadata" :> "{ended}")

endFrame == UNCHANGED <<recVars, blobs, transcriptions, apiVars, stitchVars, filterRun,
                        gateRun, parseRun, sumReqs, audioReq>>

\* endSession, confirmed, up to the PATCH fetch
endSession ==
    /\ endRun.pc = "idle"
    /\ stopRecording
    /\ endRun' = [endRun EXCEPT !.pc = "patch", !.count = Cardinality(UiTranscriptions)]
    /\ UNCHANGED <<apiVars, stitchVars, filterRun, gateRun, parseRun, sumReqs, audioReq>>

\* the server handles endSession's PATCH
EndPatchServed ==
    /\ endRun.pc = "patch"
    /\ resp = NoResp
    /\ PatchSession("u1", SessionId, EndBody)

\* endSession from the PATCH response on: a response that is not ok throws
\* into the catch block; after an ok response post-processing is requested
\* when the view holds a transcription, and the view navigates away
EndPatchResponds ==
    /\ endRun.pc = "patch"
    /\ resp # NoResp
    /\ endRun' = IF resp.owners # {}
                 THEN [endRun EXCEPT !.pc = "done", !.patchOk = TRUE, !.navigated = TRUE,
                                     !.post = IF endRun.count > 0 THEN "sent" ELSE "none"]
                 ELSE [endRun EXCEPT !.pc = "done", !.navigated = TRUE, !.reported = TRUE]
    /\ endFrame

\* the PATCH fetch rejects: the catch block logs the error and navigates
EndPatchFails ==
    /\ endRun.pc = "patch"
    /\ endRun' = [endRun EXCEPT !.pc = "done", !.navigated = TRUE, !.reported = TRUE]
    /\ endFrame

PostOutcomes == {"ok", "notOk", "rejected"}

\* variant: a failed post-processing request is reported as a failure to
\* end the session
PostProcessingSettles_reportsFailure(outcome) ==
    /\ endRun.post = "sent"
    /\ endRun' = [endRun EXCEPT !.post = outcome, !.reported = (outcome # "ok")]
    /\ endFrame

\* the post-processing fetch settles: then and catch only log
PostProcessingSettles(outcome) ==
    /\ endRun.post = "sent"
    /\ endRun' = [endRun EXCEPT !.post = outcome]
    /\ endFrame

\* the recording of LoopInit after its first tick: the first chunk has been
\* handed to transcribeAudio and the recorder has been restarted
EndInit ==
    /\ mrState = "recording"
    /\ isRecording = TRUE
    /\ isProcessing = FALSE
    /\ error = NULL
    /\ intervalRef = TRUE
    /\ streamRef = "processedWithContext"
    /\ micLive = TRUE
    /\ ctxOpen = TRUE
    /\ events = <<>>
    /\ chunksRef = 0
    /\ started = TRUE
    /\ now = 1
    /\ nextTick = 1 + ChunkSeconds
    /\ chunks = <<NewChunk>>
    /\ blobs = {}
    /\ transcriptions = <<>>
    /\ sessions = (SessionId :> [clerk_user_id |-> "u1", scenario_type |-> "in_person",
                                 client_id |-> NoClient,
                                 status |-> "active", metadata |-> "{}"])
    /\ clients = <<>>
    /\ summaries = {}
    /\ suggestions = {}
    /\ resp = NoResp
    /\ SideInit

EndNext ==
    \/ ondataavailable(1) /\ UNCHANGED <<apiVars, stitchVars, filterRun, gateRun, reqVars>>
    \/ onstop /\ UNCHANGED <<apiVars, stitchVars, filterRun, gateRun, reqVars>>
    \/ \E c \in Chunks :
          Gate(c, "significant") /\ UNCHANGED <<apiVars, stitchVars, filterRun, gateRun, reqVars>>
    \/ \E c \in Chunks :
          TranscribeUpload(c, "stored") /\ UNCHANGED <<apiVars, stitchVars, filterRun, gateRun, reqVars>>
    \/ \E c \in Chunks :
          TranscribeWhisper(c, FALSE, T_hi) /\ UNCHANGED <<apiVars, stitchVars, filterRun, gateRun, reqVars>>
    \/ \E c \in Chunks :
          TranscribeResponse(c) /\ UNCHANGED <<apiVars, stitchVars, filterRun, gateRun, reqVars>>
    \/ \E c \in Chunks :
          SaveTranscription(c, TRUE) /\ UNCHANGED <<apiVars, stitchVars, filterRun, gateRun, reqVars>>
    \/ \E c \in Chunks :
          SaveSettled(c) /\ UNCHANGED <<apiVars, stitchVars, filterRun, gateRun, reqVars>>
    \/ endSession
    \/ EndPatchServed
    \/ EndPatchResponds
    \/ EndPatchFails
    \/ \E o \in PostOutcomes : PostProcessingSettles(o)

SpecEnd == EndInit /\ [][EndNext]_vars

(***************************************************************************)
(* SpecAudio: the stitch requests of the sessions list (handlePlayPause)   *)
(* and of the session view (loadAudio) for one completed session, with the *)
(* time each request has been waiting, in minutes.                         *)
(***************************************************************************)
\* setTimeout(() => controller.abort(), 300000)
ClientTimeoutMinutes == 5
\* the clock stops advancing here
MaxWait == 6

SetAudio(v, r) == [audioReq EXCEPT ![v] = r]

audioFrame == UNCHANGED <<recVars, blobs, transcriptions, apiVars, stitchVars, filterRun,
                          gateRun, parseRun, sumReqs, endRun>>

\* the play button of the sessions list is enabled
PlayEnabled(sid) == PostOf(sid).stitched_audio_url # NoUrl

\* the view arms an abort timer for its stitch request
ArmsTimer(v) == v = "sessions"

\* handlePlayPause without a recording URL, and loadAudio, up to the fetch
RequestAudio(v) ==
    /\ audioReq[v].pc = "idle"
    /\ ~audioReq[v].loading
    /\ v = "sessions" => PlayEnabled(SessionId)
    /\ v = "sessionView" => ~audioReq[v].url
    /\ audioReq' = SetAudio(v, [audioReq[v] EXCEPT !.pc = "pending", !.loading = TRUE,
                                                  !.timer = ArmsTimer(v), !.elapsed = 0,
                                                  !.alert = "none"])
    /\ audioFrame

\* the abort timer of a pending request is due
TimerDue(v) ==
    audioReq[v].pc = "pending" /\ audioReq[v].timer
        /\ audioReq[v].elapsed >= ClientTimeoutMinutes

\* a minute passes; a due timer fires before the next one does
Wait ==
    /\ \E v \in Views : audioReq[v].pc = "pending"
    /\ \A v \in Views : ~TimerDue(v)
    /\ \A v \in Views : audioReq[v].pc = "pending" => audioReq[v].elapsed < MaxWait
    /\ audioReq' = [v \in Views |->
                       IF audioReq[v].pc = "pending"
                       THEN [audioReq[v] EXCEPT !.elapsed = @ + 1]
                       ELSE audioReq[v]]
    /\ audioFrame

\* the timer fires: controller.abort() rejects the fetch with an AbortError;
\* the catch block tells the user to try again later and clears the loading
\* state
AbortTimeout(v) ==
    /\ TimerDue(v)
    /\ audioReq' = SetAudio(v, [audioReq[v] EXCEPT !.pc = "idle", !.loading = FALSE,
                                                  !.timer = FALSE, !.alert = "retryLater"])
    /\ audioFrame

\* the fetch settles: an ok response, a response that is not ok, a rejection
AudioSettles(v, outcome) ==
    /\ audioReq[v].pc = "pending"
    /\ audioReq' = SetAudio(v,
          IF outcome = "ok"
          THEN [audioReq[v] EXCEPT !.pc = "idle", !.loading = FALSE, !.timer = FALSE,
                                   !.url = TRUE]
          ELSE IF v = "sessions"
          THEN [audioReq[v] EXCEPT !.pc = "idle", !.loading = FALSE,
                                   !.timer = IF outcome = "notOk" THEN FALSE ELSE @,
                                   !.alert = IF outcome = "notOk" THEN "couldNotLoad"
                                             ELSE "error"]
          ELSE [audioReq[v] EXCEPT !.pc = "idle", !.loading = FALSE])
    /\ audioFrame

\* a stitched artifact may or may not exist for the session
AudioInit ==
    /\ RecInit
    /\ blobs = {}
    /\ transcriptions = <<>>
    /\ sessions = (SessionId :> [clerk_user_id |-> "u1", scenario_type |-> "in_person",
                                 client_id |-> NoClient,
                                 status |-> "completed", metadata |-> "{ended}"])
    /\ clients = <<>>
    /\ summaries = {}
    /\ suggestions = {}
    /\ resp = NoResp
    /\ artifacts = <<>>
    /\ post \in {<<>>, (SessionId :> [stitched_audio_url |-> ArtifactKey(SessionId),
                                      full_transcript |-> T_hi,
                                      total_duration |-> ChunkSeconds])}
    /\ stitchResp = NoStitch
    /\ filterRun = [text |-> <<>>, answer |-> <<>>]
    /\ gateRun = NoGateRun
    /\ ReqInit

AudioNext ==
    \/ \E v \in Views : RequestAudio(v)
    \/ Wait
    \/ \E v \in Views : AbortTimeout(v)
    \/ \E v \in Views, o \in PostOutcomes : AudioSettles(v, o)

SpecAudio == AudioInit /\ [][AudioNext]_vars

Settled(c) == chunks[c].pc \in {"done", "failed", "skipped"}

\* C26: while the post-processing request that endSession sent is in
\* flight, no emitted chunk is still on its way through the pipeline and no
\* audio is still waiting to be emitted: every chunk's record was saved
\* before the request was sent.
C26_AllChunksSavedAtPostProcessing ==
    endRun.post = "sent" =>
        /\ events = <<>>
        /\ chunksRef = 0
        /\ \A c \in Chunks : Settled(c)

(***************************************************************************)
(* Claims about the client's stitch requests (SpecAudio)                   *)
(***************************************************************************)
\* C24: every stitch request the client has in flight, from the sessions
\* list and from the session view, has an abort timer and has been waiting
\* no longer than the client timeout; when the timer fires the loading
\* state is cleared and the user is told to retry later.
C24_StitchRequestsTimeOut ==
    /\ [](\A v \in Views :
             audioReq[v].pc = "pending" =>
                 audioReq[v].timer /\ audioReq[v].elapsed <= ClientTimeoutMinutes)
    /\ [][\A v \in Views :
             AbortTimeout(v) => (~audioReq'[v].loading /\ audioReq'[v].alert = "retryLater")]_vars

(***************************************************************************)
(* Claims about the session row under the REST handlers (SpecApi)          *)
(***************************************************************************)
\* C25: a session is created active, and a session that is completed is
\* never set back to another status: in every step a completed session that
\* still exists is still completed.
C25_CompletedIsFinal ==
    /\ [][\A sid \in DOMAIN sessions' \ DOMAIN sessions :
             sessions'[sid].status = "active"]_vars
    /\ [][\A sid \in DOMAIN sessions \cap DOMAIN sessions' :
             sessions[sid].status = "completed" => sessions'[sid].status = "completed"]_vars

\* C27: the client a session is linked to, if any, is a client of the
\* session's own principal.
C27_ClientOfSamePrincipal ==
    \A sid \in DOMAIN sessions :
        sessions[sid].client_id # NoClient
            => OwnsClient(sessions[sid].clerk_user_id, sessions[sid].client_id)

C28_ConcurrentRequestsSucceed ==
    \A r \in Requests :
        sumReqs[r].answer = "saveError" => sumReqs[r].sid \notin DOMAIN sessions

\* C29: a request with forceRegenerate is never answered with the existing
\* summary, and a request without it that is answered with the existing
\* summary has not called text generation.
C29_ForceRegenerates ==
    \A r \in Requests :
        /\ sumReqs[r].force => sumReqs[r].answer # "existing"
        /\ (~sumReqs[r].force /\ sumReqs[r].answer = "existing") => ~sumReqs[r].called

====
